---- MODULE Spec2Model ----
(***************************************************************************)
(* A model of the 24 puzzle solver: the index bijection (index.c), the     *)
(* PDB catalogue (catalogue.h), the heuristic loader (heuristic.c), the    *)
(* finite state machines (fsm.c), the generation of pattern databases     *)
(* with its concurrent updates (pdb.h), the IDA* search, the differential  *)
(* lookup of bit pattern databases, the rounds of genfsm (genfsm.c) and    *)
(* the index tables of make_index_table (index.c).                         *)
(* Tile sets are modelled as sets of tile numbers or grid positions in     *)
(* 0..24, a puzzle as the record of its two arrays tiles[] and grid[].     *)
(***************************************************************************)
EXTENDS Integers, Sequences, FiniteSets, TLC

VARIABLES build, aux, p, idx, stage, origin, nmoves, p0, idx0,
          cat, ph, cat_h, moved, heumap,
          hpc, hi, hargs, hloc, fs, heu, type_match, errno, saved_errno, hret, calls,
          fsm, fst, zlocs,
          lpc, li, heap, lret, lfail,
          entries, workers, desired,
          gpdb, gpc, round, gi, gcount,
          spc, sroot, bound, stack, sret,
          bpc, btrue, bold, bret,
          mpc, limit, mi, expanded, doloops,
          tpc, tts, tloop, index_tables, tret

\* the variables of the index operations
idxvars == <<aux, idx, stage, origin, p0, idx0>>
idxvars_but_stage == <<aux, idx, origin, p0, idx0>>
\* the variables of the catalogue
catvars == <<cat, ph, cat_h, moved, heumap>>

\* the variables of the heuristic loader
heuvars == <<hpc, hi, hargs, hloc, fs, heu, type_match, errno, saved_errno, hret, calls>>

\* the variables of the finite state machines
fsmvars == <<fsm, fst, zlocs>>

\* the variables of the parts other than the index, the catalogue and the loader
\* the variables of fsm_load
flvars == <<lpc, li, heap, lret, lfail>>

\* the variables of the concurrent updates of one round
updvars == <<entries, workers, desired>>

\* the variables of the generation of a pattern database
genvars == <<gpdb, gpc, round, gi, gcount>>

\* the variables of the search
srchvars == <<spc, sroot, bound, stack, sret>>

\* the variables of the parts added to the model last
\* the variables of the lookups in a bit-packed pattern database
bitvars == <<bpc, btrue, bold, bret>>

\* no call of do_loops yet
NoLoops == [round |-> -1, slices |-> {}, expanded |-> 0]

\* the variables of genfsm
gfvars == <<mpc, limit, mi, expanded, doloops>>

\* the variables of the calls of make_index_table
tabvars == <<tpc, tts, tloop, index_tables, tret>>

morevars == <<srchvars, bitvars, gfvars, tabvars>>

restvars == <<fsmvars, flvars, updvars, genvars, morevars>>

vars == <<build, p, nmoves, idxvars, catvars, heuvars, restvars>>

(***************************************************************************)
(* Bounds of the model.                                                    *)
(***************************************************************************)
\* the number of legal moves applied to the solved puzzle to obtain inputs
MaxMoves == 4
\* indices are chosen among the first MaxMaprank map ranks (and the last one)
MaxMaprank == 14

(***************************************************************************)
(* puzzle.h, tileset.h, rank.c: the board and the tile set primitives.     *)
(***************************************************************************)
TILE_COUNT == 25
ZERO_TILE == 0
INDEX_MAX_TILES == 12

Grid == 0 .. (TILE_COUNT - 1)

EMPTY_TILESET == {}

tileset_has(ts, t) == t \in ts
tileset_add(ts, t) == ts \cup {t}
tileset_remove(ts, t) == ts \ {t}
tileset_empty(ts) == ts = {}
tileset_count(ts) == Cardinality(ts)
tileset_intersect(a, b) == a \cap b
tileset_difference(a, b) == a \ b
tileset_complement(ts) == Grid \ ts
\* the tile set of the n lowest numbered tiles
tileset_least(n) == {t \in Grid : t < n}
tileset_get_least(ts) == CHOOSE t \in ts : \A u \in ts : t <= u
tileset_remove_least(ts) == ts \ {tileset_get_least(ts)}

\* the tile set containing the i-th (counting from 0) least member of ts
rankselect(ts, i) == {t \in ts : Cardinality({u \in ts : u < t}) = i}

solved_puzzle == [tiles |-> [t \in Grid |-> t], grid |-> [g \in Grid |-> g]]

zero_location(pz) == pz.tiles[ZERO_TILE]

\* the table of the grid positions adjacent to each position of the 5x5 board
movetab ==
    [z \in Grid |-> {g \in Grid : \/ (g = z - 5)
                                  \/ (g = z + 5)
                                  \/ (g = z - 1 /\ z % 5 # 0)
                                  \/ (g = z + 1 /\ z % 5 # 4)}]

get_moves(z) == movetab[z]

\* exchange the zero tile with the tile on grid position dloc
move(pz, dloc) ==
    LET dtile == pz.grid[dloc]
        zloc == zero_location(pz)
        grid1 == [pz.grid EXCEPT ![dloc] = ZERO_TILE]
        grid2 == [grid1 EXCEPT ![zloc] = dtile]
        tiles1 == [pz.tiles EXCEPT ![dtile] = zloc]
        tiles2 == [tiles1 EXCEPT ![ZERO_TILE] = dloc]
    IN [tiles |-> tiles2, grid |-> grid2]

RECURSIVE BinomialRec(_, _)
BinomialRec(n, k) ==
    IF k = 0 THEN 1
    ELSE IF n < k THEN 0
    ELSE (BinomialRec(n - 1, k - 1) * n) \div k

\* the table of the binomial coefficients the rank functions use
binomials == [n \in 0 .. TILE_COUNT |-> [k \in 0 .. TILE_COUNT |-> BinomialRec(n, k)]]

Binomial(n, k) == binomials[n][k]

\* the number of tile sets with k tiles
combination_count == [k \in 0 .. TILE_COUNT |-> Binomial(TILE_COUNT, k)]

RECURSIVE Factorial(_)
Factorial(n) == IF n = 0 THEN 1 ELSE n * Factorial(n - 1)

factorials == [n \in 0 .. INDEX_MAX_TILES |-> Factorial(n)]

\* the rank of ts among the tile sets of its size (combinatorial number system)
tileset_rank(ts) ==
    LET F[s \in SUBSET ts] ==
            IF s = {} THEN 0
            ELSE LET top == CHOOSE t \in s : \A u \in s : u <= t
                 IN Binomial(top, Cardinality(s)) + F[s \ {top}]
    IN F[ts]

RECURSIVE tileset_unrank(_, _)
tileset_unrank(k, rk) ==
    IF k = 0 THEN EMPTY_TILESET
    ELSE LET fits == {c \in Grid : Binomial(c, k) <= rk}
             top == CHOOSE c \in fits : \A d \in fits : d <= c
         IN tileset_add(tileset_unrank(k - 1, rk - Binomial(top, k)), top)

\* a variant that advances the highest member only
next_combination_top(ts) ==
    LET top == CHOOSE t \in ts : \A u \in ts : u <= t
    IN (ts \ {top}) \cup {top + 1}

\* the next tile set of the same size in rank order (Gosper's hack)
next_combination(ts) ==
    LET low == tileset_get_least(ts)
        \* the run of adjacent members starting at the least member
        run == {t \in ts : \A u \in low .. t : u \in ts}
        top == CHOOSE t \in run : \A u \in run : u <= t
    IN (ts \ run) \cup {top + 1} \cup tileset_least(Cardinality(run) - 1)

\* the members of cmap reachable from the members of eq through members of cmap
RECURSIVE tileset_flood(_, _)
tileset_flood(cmap, eq) ==
    LET grown == eq \cup {g \in cmap \ eq : get_moves(g) \cap eq # {}}
    IN IF grown = eq THEN eq ELSE tileset_flood(cmap, grown)

\* the equivalence classes of the zero tile on the complement of map,
\* numbered in the order of their least members; -1 on map itself
RECURSIVE populate_loop(_, _, _)
populate_loop(eqclasses, cmap, n) ==
    IF tileset_empty(cmap) THEN [n_eqclass |-> n, eqclasses |-> eqclasses]
    ELSE LET eq == tileset_flood(cmap, {tileset_get_least(cmap)})
         IN populate_loop([g \in Grid |-> IF g \in eq THEN n ELSE eqclasses[g]],
                          tileset_difference(cmap, eq), n + 1)

tileset_populate_eqclasses(map) ==
    populate_loop([g \in Grid |-> -1], tileset_complement(map), 0)

(***************************************************************************)
(* index.c                                                                 *)
(***************************************************************************)
\* the code paths of tile_map the build can select
Builds == {"avx2", "sse4_2", "portable"}

\* the tile sets the indices are computed for
Tilesets == {{1}, {0, 1}, {1, 5}, {0, 1, 5}, {0, 5, 6}, {1, 2, 6}, {0, 1, 2, 5}}

NULL == -1

\* the value of ~x in an unsigned char
Complement8(x) == 255 - x

\* the bytes of a 16 byte string up to its terminating zero byte
StringBytes(str) ==
    {str[i] : i \in {j \in 1 .. 16 : \A l \in 1 .. j : str[l] # 0}}

\* pcmpistrm, unsigned bytes, equal any, bit mask: bit j of the result is set
\* when byte j of the string b is equal to some byte of the string a
cmpistrm(a, b) ==
    {j \in 0 .. 15 : /\ \A l \in 1 .. (j + 1) : b[l] # 0
                     /\ b[j + 1] \in StringBytes(a)}

\* the complemented grid masked to its first 25 bytes, bytes lo .. lo + 15
GridString(pz, lo) ==
    [j \in 1 .. 16 |-> IF lo + j - 1 < TILE_COUNT
                       THEN Complement8(pz.grid[lo + j - 1]) ELSE 0]

tile_map_simd(a, pz) ==
    LET maplo == cmpistrm(a.tiles, GridString(pz, 0))
        maphi == cmpistrm(a.tiles, GridString(pz, 16))
    IN maplo \cup {j + 16 : j \in maphi}

RECURSIVE tile_map_portable_loop(_, _, _)
tile_map_portable_loop(ts, map, pz) ==
    IF tileset_empty(ts) THEN map
    ELSE tile_map_portable_loop(tileset_remove_least(ts),
             map \cup {pz.tiles[tileset_get_least(ts)]}, pz)

tile_map_portable(a, pz) == tile_map_portable_loop(a.ts, EMPTY_TILESET, pz)

\* the grid locations occupied by the nonzero tiles of a.ts, as computed by
\* the code path the build has selected
tile_map(b, a, pz) ==
    IF b = "portable" THEN tile_map_portable(a, pz) ELSE tile_map_simd(a, pz)

RECURSIVE index_permutation_loop(_, _, _, _, _, _)
index_permutation_loop(ts, map, pz, factor, n_tiles, pidx) ==
    IF tileset_empty(ts) THEN pidx
    ELSE LET leastidx == tileset_get_least(ts)
             factor1 == factor * n_tiles
             least == pz.tiles[leastidx]
         IN index_permutation_loop(tileset_remove_least(ts),
                tileset_remove(map, least), pz, factor1, n_tiles - 1,
                pidx + factor1 * tileset_count(tileset_intersect(map, tileset_least(least))))

index_permutation(ts, map, pz) ==
    IF tileset_empty(ts) THEN 0
    ELSE LET least == pz.tiles[tileset_get_least(ts)]
         IN index_permutation_loop(tileset_remove_least(ts),
                tileset_remove(map, least), pz, 1, tileset_count(ts),
                tileset_count(tileset_intersect(map, tileset_least(least))))

\* the value of map in iteration i of the loop of make_index_table: the
\* enumeration by next_combination starts at the tscount lowest positions
index_table_map(tscount, i) == tileset_unrank(tscount, i)

\* a pointer to the table of ts, or NULL when ts has no zero tile; the tables
\* are cached by the number of nonzero tiles, which names them here
make_index_table(ts) ==
    IF ~tileset_has(ts, ZERO_TILE) THEN NULL
    ELSE tileset_count(tileset_remove(ts, ZERO_TILE))

\* entry rk of the table a.idxt points to
idxt_entry(a, rk) ==
    LET eqc == tileset_populate_eqclasses(index_table_map(a.idxt, rk))
    IN [n_eqclass |-> eqc.n_eqclass, eqclasses |-> eqc.eqclasses]

RECURSIVE make_aux_tiles(_, _)
make_aux_tiles(tiles, tsnz) ==
    IF tileset_empty(tsnz) THEN tiles \o [j \in 1 .. (16 - Len(tiles)) |-> 0]
    ELSE make_aux_tiles(Append(tiles, Complement8(tileset_get_least(tsnz))),
                        tileset_remove_least(tsnz))

make_index_aux(ts) ==
    LET tsnz == tileset_remove(ts, ZERO_TILE)
    IN [ts |-> ts,
        n_tile |-> tileset_count(tsnz),
        n_maprank |-> combination_count[tileset_count(tsnz)],
        n_perm |-> factorials[tileset_count(tsnz)],
        tiles |-> make_aux_tiles(<<>>, tsnz),
        idxt |-> make_index_table(ts)]

\* the values a read past the end of the index table may yield
OutOfBoundsReads == {-1, 0, 3}

\* compute_index; oob is the value read when idx.maprank is not an entry
\* of the table a.idxt points to
compute_index(b, a, pz, oob) ==
    LET tsnz == tileset_remove(a.ts, ZERO_TILE)
        map == tile_map(b, a, pz)
        maprank == tileset_rank(map)
    IN [pidx |-> index_permutation(tsnz, map, pz),
        maprank |-> maprank,
        eqidx |-> IF tileset_has(a.ts, ZERO_TILE)
                  THEN IF maprank < a.n_maprank
                       THEN idxt_entry(a, maprank).eqclasses[zero_location(pz)]
                       ELSE oob
                  ELSE -1]

\* the grid positions of the equivalence class i.eqidx of the map i.maprank
eqclass_from_index(a, i) ==
    {g \in Grid : idxt_entry(a, i.maprank).eqclasses[g] = i.eqidx}

\* a variant that picks the highest numbered position of the class
canonical_zero_location_greatest(a, i) ==
    CHOOSE g \in eqclass_from_index(a, i) : \A h \in eqclass_from_index(a, i) : h <= g

canonical_zero_location(a, i) == tileset_get_least(eqclass_from_index(a, i))

RECURSIVE unindex_permutation_loop(_, _, _, _, _, _, _)
unindex_permutation_loop(pz, i, ts, map, cmap, pidx, n_tiles) ==
    IF i = TILE_COUNT THEN pz
    ELSE IF tileset_has(ts, i)
    THEN LET cmp == pidx % n_tiles
             tile == rankselect(map, cmp)
             loc == tileset_get_least(tile)
         IN unindex_permutation_loop(
                [tiles |-> [pz.tiles EXCEPT ![i] = loc],
                 grid |-> [pz.grid EXCEPT ![loc] = i]],
                i + 1, ts, tileset_difference(map, tile), cmap,
                pidx \div n_tiles, n_tiles - 1)
    ELSE LET loc == tileset_get_least(cmap)
         IN unindex_permutation_loop(
                [tiles |-> [pz.tiles EXCEPT ![i] = loc],
                 grid |-> [pz.grid EXCEPT ![loc] = i]],
                i + 1, ts, map, tileset_remove_least(cmap), pidx, n_tiles)

\* a variant that fills the other tiles into all of the grid
unindex_permutation_nocomplement(pz, ts, map, pidx) ==
    unindex_permutation_loop(pz, 0, ts, map, Grid, pidx, tileset_count(ts))

unindex_permutation(pz, ts, map, pidx) ==
    unindex_permutation_loop(pz, 0, ts, map, tileset_complement(map), pidx,
                             tileset_count(ts))

invert_index(a, i) ==
    LET tsnz == tileset_remove(a.ts, ZERO_TILE)
        map == tileset_unrank(tileset_count(tsnz), i.maprank)
        zeroed == [tiles |-> [t \in Grid |-> 0], grid |-> [g \in Grid |-> 0]]
        pz == unindex_permutation(zeroed, tsnz, map, i.pidx)
    IN IF tileset_has(a.ts, ZERO_TILE)
       THEN move(pz, canonical_zero_location(a, i))
       ELSE pz

\* the index triples that name a cell of the pattern database of a.ts
ValidIndex(a, i) ==
    /\ i.maprank \in 0 .. (a.n_maprank - 1)
    /\ i.pidx \in 0 .. (a.n_perm - 1)
    /\ IF tileset_has(a.ts, ZERO_TILE)
       THEN i.eqidx \in 0 .. (idxt_entry(a, i.maprank).n_eqclass - 1)
       ELSE i.eqidx = -1

(***************************************************************************)
(* The index operations applied to puzzles reached by legal moves and to   *)
(* chosen indices.                                                         *)
(***************************************************************************)
NoIndex == [pidx |-> -1, maprank |-> -1, eqidx |-> -1]

\* the map ranks indices are chosen from
ChosenMapranks(a) ==
    {r \in 0 .. (a.n_maprank - 1) : r < MaxMaprank \/ r = a.n_maprank - 1}

ChosenIndices(a) ==
    UNION {[pidx : 0 .. (a.n_perm - 1), maprank : {r},
            eqidx : IF tileset_has(a.ts, ZERO_TILE)
                    THEN 0 .. (idxt_entry(a, r).n_eqclass - 1) ELSE {-1}] :
           r \in ChosenMapranks(a)}

\* the puzzles a call with an invalid index may leave behind
UndefinedPuzzles(pz) == {pz, solved_puzzle, invert_index(make_index_aux({1}), [pidx |-> 0, maprank |-> 3, eqidx |-> -1])}

\* the heuristic loader is not in use
HeuIdleButErrno ==
    /\ hpc = "idle"
    /\ hi = 0
    /\ hargs = NULL
    /\ hloc = NULL
    /\ fs = NULL
    /\ heu = NULL
    /\ type_match = 0
    /\ saved_errno = 0
    /\ hret = 0
    /\ calls = <<>>

HeuIdle == HeuIdleButErrno /\ errno = 0

\* no finite state machine is in use
FsmIdle ==
    /\ fsm = NULL
    /\ fst = NULL
    /\ zlocs = <<>>

\* the parts other than the index, the catalogue and the loader are not in use
\* fsm_load is not in use
LoadIdle ==
    /\ lpc = "idle"
    /\ li = 0
    /\ heap = {}
    /\ lret = NULL
    /\ lfail = "none"

\* no round of updates is in progress
UpdIdle ==
    /\ entries = <<>>
    /\ workers = <<>>
    /\ desired = 0

\* no pattern database is generated
GenIdle ==
    /\ gpdb = NULL
    /\ gpc = "idle"
    /\ round = 0
    /\ gi = 0
    /\ gcount = 0

\* no search is in progress
SearchIdle ==
    /\ spc = "idle"
    /\ sroot = NULL
    /\ bound = 0
    /\ stack = <<>>
    /\ sret = 0

\* no bit-packed pattern database is looked up
BitIdle ==
    /\ bpc = "idle"
    /\ btrue = 0
    /\ bold = 0
    /\ bret = 0

\* genfsm does not run
GenfsmIdle ==
    /\ mpc = "idle"
    /\ limit = 0
    /\ mi = 0
    /\ expanded = 0
    /\ doloops = NoLoops

\* the locals of the loop of make_index_table before its first iteration
NoTableLoop == [idxt |-> <<>>, offset |-> 0, map |-> {}]

\* make_index_table is not followed
TableIdle ==
    /\ tpc = "idle"
    /\ tts = {}
    /\ tloop = NoTableLoop
    /\ index_tables = <<>>
    /\ tret = NULL

MoreIdle == SearchIdle /\ BitIdle /\ GenfsmIdle /\ TableIdle

RestIdle == FsmIdle /\ LoadIdle /\ UpdIdle /\ GenIdle /\ MoreIdle

InitIndex ==
    /\ build \in Builds
    /\ aux \in {make_index_aux(ts) : ts \in Tilesets}
    /\ p = solved_puzzle
    /\ idx = NoIndex
    /\ stage = "puzzle"
    /\ origin = "puzzle"
    /\ nmoves = 0
    /\ p0 = solved_puzzle
    /\ idx0 = NoIndex
    /\ cat = NULL
    /\ ph = <<>>
    /\ cat_h = 0
    /\ moved = ZERO_TILE
    /\ heumap = 0
    /\ HeuIdle
    /\ RestIdle

\* a legal move of the puzzle
Move(dloc) ==
    /\ stage = "puzzle"
    /\ nmoves < MaxMoves
    /\ dloc \in get_moves(zero_location(p))
    /\ p' = move(p, dloc)
    /\ nmoves' = nmoves + 1
    /\ UNCHANGED <<build, aux, idx, stage, origin, p0, idx0, catvars, heuvars, restvars>>

\* the caller picks a valid index to decode
ChooseIndex ==
    /\ stage = "puzzle"
    /\ nmoves = 0
    /\ idx' \in ChosenIndices(aux)
    /\ stage' = "index"
    /\ origin' = "index"
    /\ UNCHANGED <<build, aux, p, nmoves, p0, idx0, catvars, heuvars, restvars>>

ComputeIndex(oob) ==
    /\ stage \in {"puzzle", "inverted"}
    /\ idx' = compute_index(build, aux, p, oob)
    /\ stage' = IF stage = "puzzle" THEN "computed" ELSE "recomputed"
    /\ p0' = IF stage = "puzzle" THEN p ELSE p0
    /\ UNCHANGED <<build, aux, p, origin, nmoves, idx0, catvars, heuvars, restvars>>

InvertIndex ==
    /\ stage \in {"index", "computed"}
    /\ ValidIndex(aux, idx)
    /\ p' = invert_index(aux, idx)
    /\ idx0' = idx
    /\ stage' = "inverted"
    /\ UNCHANGED <<build, aux, idx, origin, nmoves, p0, catvars, heuvars, restvars>>

\* invert_index called with an index that is not valid reads past the tables
InvertIndexUndefined ==
    /\ stage = "computed"
    /\ ~ValidIndex(aux, idx)
    /\ p' \in UndefinedPuzzles(p)
    /\ idx0' = idx
    /\ stage' = "inverted"
    /\ UNCHANGED <<build, aux, idx, origin, nmoves, p0, catvars, heuvars, restvars>>

NextIndex ==
    \/ \E dloc \in Grid : Move(dloc)
    \/ ChooseIndex
    \/ \E oob \in OutOfBoundsReads : ComputeIndex(oob)
    \/ InvertIndex
    \/ InvertIndexUndefined

SpecIndex == InitIndex /\ [][NextIndex]_vars

(***************************************************************************)
(* Properties of the index operations.                                     *)
(***************************************************************************)
\* the grid positions of the nonzero tiles of ts in pz
NonzeroPositions(ts, pz) == {pz.tiles[t] : t \in tileset_remove(ts, ZERO_TILE)}

ValidPuzzle(pz) ==
    /\ \A t \in Grid : pz.tiles[t] \in Grid /\ pz.grid[t] \in Grid
    /\ \A g \in Grid : \E t \in Grid : pz.tiles[t] = g
    /\ \A t \in Grid : \E g \in Grid : pz.grid[g] = t
    /\ \A t \in Grid : pz.grid[pz.tiles[t]] = t
    /\ Cardinality({g \in Grid : pz.grid[g] = ZERO_TILE}) = 1

\* C1: for every tile set and every valid index idx0, computing the index of
\* the puzzle decoded from idx0 returns idx0 in all three components (this
\* covers compute(invert(compute(p))) = compute(p), where idx0 = compute(p)).
C1_ComputeAfterInvert ==
    (stage = "recomputed" /\ ValidIndex(aux, idx0)) => idx = idx0

\* C2: on every code path, tile_map is exactly the set of grid positions of
\* the nonzero tiles of aux.ts: n_tile positions, never the zero tile's.
C2_TileMapNonzero ==
    LET map == tile_map(build, aux, p)
    IN /\ map = NonzeroPositions(aux.ts, p)
       /\ tileset_count(map) = aux.n_tile
       /\ ~tileset_has(map, zero_location(p))

\* C3: every index compute_index produces is in range: pidx < n_perm,
\* maprank < n_maprank, eqidx a class of maprank with the zero tile in ts
\* and -1 without.
C3_IndexInRange ==
    stage \in {"computed", "recomputed"} => ValidIndex(aux, idx)

\* C4: decoding the index of a puzzle p0 gives a puzzle that agrees with p0
\* on the position of every nonzero tile of ts and, with the zero tile in ts,
\* has its zero tile in the equivalence class of the zero tile of p0.
C4_InvertAfterCompute ==
    (stage = "inverted" /\ origin = "puzzle") =>
        /\ \A t \in tileset_remove(aux.ts, ZERO_TILE) : p.tiles[t] = p0.tiles[t]
        /\ tileset_has(aux.ts, ZERO_TILE) =>
             LET eqc == tileset_populate_eqclasses(NonzeroPositions(aux.ts, p0))
             IN eqc.eqclasses[zero_location(p)] = eqc.eqclasses[zero_location(p0)]

\* the grid positions of class eqidx of the map of rank maprank
ClassPositions(k, maprank, eqidx) ==
    LET eqc == tileset_populate_eqclasses(tileset_unrank(k, maprank))
    IN {g \in Grid : eqc.eqclasses[g] = eqidx}

\* C5: with the zero tile in ts, invert_index puts the zero tile on the
\* lowest numbered grid position of the class named by the index.
C5_ZeroOnLeastOfClass ==
    (stage = "inverted" /\ tileset_has(aux.ts, ZERO_TILE) /\ ValidIndex(aux, idx0)) =>
        LET class == ClassPositions(aux.n_tile, idx0.maprank, idx0.eqidx)
        IN /\ zero_location(p) \in class
           /\ \A g \in class : zero_location(p) <= g
           /\ p.grid[zero_location(p)] = ZERO_TILE

\* the zero tile was decoded into a class that is not the first one
C5_Witness ==
    /\ stage = "inverted"
    /\ origin = "index"
    /\ tileset_has(aux.ts, ZERO_TILE)
    /\ ValidIndex(aux, idx0)
    /\ idx0.eqidx = 1
    /\ zero_location(p) # tileset_get_least(tileset_complement(NonzeroPositions(aux.ts, p)))

\* C6: the puzzle invert_index writes for a valid index is a valid
\* configuration: tiles and grid are inverse permutations of 0..24 and one
\* grid position holds the zero tile, also after the final move.
C6_InvertedPuzzleValid ==
    (stage = "inverted" /\ ValidIndex(aux, idx0)) => ValidPuzzle(p)

\* a puzzle was decoded whose zero tile the final move has relocated
C6_Witness ==
    /\ stage = "inverted"
    /\ ValidIndex(aux, idx0)
    /\ tileset_has(aux.ts, ZERO_TILE)
    /\ idx0.pidx > 0
    /\ zero_location(p) # 0

(***************************************************************************)
(* pdb.h, catalogue.h: pattern database lookups and catalogues.            *)
(***************************************************************************)
\* the number of legal moves the catalogue follows
MaxCatMoves == 3

\* the number of entries of the partial h value buffers that are modelled;
\* the catalogues loaded have no more PDBs
MaxPdbs == 3

UNREACHED == 255

\* the values a read past the end of a PDB table may yield
OutOfBoundsBytes == {0, 200}

\* a pattern database for ts whose tables are mapped from a file; the byte
\* in cell offset of table maprank is given by TableByte
MappedPdb(ts, seed) == [aux |-> make_index_aux(ts), seed |-> seed]

TableByte(pdb, maprank, offset) == (pdb.seed + 13 * maprank + 5 * offset) % UNREACHED

pdb_table_size(pdb, i) ==
    pdb.aux.n_perm * (IF tileset_has(pdb.aux.ts, ZERO_TILE)
                      THEN idxt_entry(pdb.aux, i).n_eqclass ELSE 1)

\* a variant that does not scale the equivalence class by n_perm
pdb_entry_pointer_unscaled(pdb, i) ==
    IF tileset_has(pdb.aux.ts, ZERO_TILE)
    THEN [table |-> i.maprank, offset |-> i.eqidx + i.pidx]
    ELSE [table |-> i.maprank, offset |-> i.pidx]

\* the table and the offset into it that pdb_entry_pointer addresses
pdb_entry_pointer(pdb, i) ==
    IF tileset_has(pdb.aux.ts, ZERO_TILE)
    THEN [table |-> i.maprank, offset |-> i.eqidx * pdb.aux.n_perm + i.pidx]
    ELSE [table |-> i.maprank, offset |-> i.pidx]

\* pdb_lookup; oob is the byte read when the entry is outside of the tables
pdb_lookup(pdb, i, oob) ==
    LET entry == pdb_entry_pointer(pdb, i)
    IN IF /\ entry.table \in 0 .. (pdb.aux.n_maprank - 1)
          /\ entry.offset \in 0 .. (pdb_table_size(pdb, entry.table) - 1)
       THEN TableByte(pdb, entry.table, entry.offset)
       ELSE oob

pdb_lookup_puzzle(b, pdb, pz, oob) ==
    pdb_lookup(pdb, compute_index(b, pdb.aux, pz, oob.eqidx), oob.byte)

pdb_hval_wrapper(b, provider, pz, oob) == pdb_lookup_puzzle(b, provider, pz, oob)

\* a variant that trusts the old value
pdb_hdiff_wrapper_old(b, provider, pz, old_h, oob) == old_h

pdb_hdiff_wrapper(b, provider, pz, old_h, oob) == pdb_lookup_puzzle(b, provider, pz, oob)

RECURSIVE ctzll(_)
ctzll(x) == IF x % 2 = 1 THEN 0 ELSE 1 + ctzll(x \div 2)

RECURSIVE BitAnd(_, _)
BitAnd(x, y) ==
    IF x = 0 \/ y = 0 THEN 0
    ELSE (x % 2) * (y % 2) + 2 * BitAnd(x \div 2, y \div 2)

\* the sum of at most 64 unsigned chars does not wrap around in an unsigned
RECURSIVE ph_hval_sum(_, _, _)
ph_hval_sum(parts, hvals, sum) ==
    IF parts = 0 THEN sum
    ELSE ph_hval_sum(BitAnd(parts, parts - 1), hvals,
                     sum + hvals[ctzll(parts) + 1])

RECURSIVE ph_hval_loop(_, _, _, _)
ph_hval_loop(c, hvals, i, max) ==
    IF i >= c.n_heuristics THEN max
    ELSE LET sum == ph_hval_sum(c.parts[i + 1], hvals, 0)
         IN ph_hval_loop(c, hvals, i + 1, IF sum > max THEN sum ELSE max)

\* a variant that returns the value of the last heuristic
catalogue_ph_hval_last(c, hvals) ==
    IF c.n_heuristics = 0 THEN 0
    ELSE ph_hval_sum(c.parts[c.n_heuristics], hvals, 0)

\* entry i of an array is element i + 1 of the sequence that models it
catalogue_ph_hval(c, hvals) == ph_hval_loop(c, hvals, 0, 0)

\* a variant that keeps the bits of the smaller sums
RECURSIVE max_heuristics_loop_keep(_, _, _, _, _)
max_heuristics_loop_keep(c, hvals, i, max, map) ==
    IF i >= c.n_heuristics THEN map
    ELSE LET sum == ph_hval_sum(c.parts[i + 1], hvals, 0)
             max1 == IF sum > max THEN sum ELSE max
         IN max_heuristics_loop_keep(c, hvals, i + 1, max1,
                IF sum = max1 THEN map + 2 ^ i ELSE map)

catalogue_max_heuristics_keep(c, hvals) == max_heuristics_loop_keep(c, hvals, 0, 0, 0)

\* bit i of map is clear when the loop reaches heuristic i, so that
\* map | 1 << i is map + 2 ^ i
RECURSIVE max_heuristics_loop(_, _, _, _, _)
max_heuristics_loop(c, hvals, i, max, map) ==
    IF i >= c.n_heuristics THEN map
    ELSE LET sum == ph_hval_sum(c.parts[i + 1], hvals, 0)
             max1 == IF sum > max THEN sum ELSE max
             map1 == IF sum > max THEN 0 ELSE map
         IN max_heuristics_loop(c, hvals, i + 1, max1,
                IF sum = max1 THEN map1 + 2 ^ i ELSE map1)

catalogue_max_heuristics(c, hvals) == max_heuristics_loop(c, hvals, 0, 0, 0)

\* look up every PDB of the catalogue, store the values, return the h value
catalogue_partial_hvals(b, c, hvals, pz, oob) ==
    LET new == [i \in DOMAIN hvals |->
                   IF i <= c.n_pdbs
                   THEN pdb_lookup_puzzle(b, c.pdbs[i], pz, oob)
                   ELSE hvals[i]]
    IN [hvals |-> new, h |-> catalogue_ph_hval(c, new)]

\* look up the PDBs whose tile set has the moved tile, keep the other values
catalogue_diff_hvals(b, c, hvals, pz, tile, oob) ==
    LET new == [i \in DOMAIN hvals |->
                   IF i <= c.n_pdbs /\ tileset_has(c.pdbs_ts[i], tile)
                   THEN pdb_lookup_puzzle(b, c.pdbs[i], pz, oob)
                   ELSE hvals[i]]
    IN [hvals |-> new, h |-> catalogue_ph_hval(c, new)]

\* the content of the throw-away buffer of catalogue_hval
UninitializedHvals == [i \in 1 .. MaxPdbs |-> 77]

catalogue_hval(b, c, pz, oob) ==
    catalogue_partial_hvals(b, c, UninitializedHvals, pz, oob).h

\* a catalogue of the PDBs for the tile sets tss with the heuristics parts
Catalogue(tss, parts) ==
    [pdbs |-> [i \in DOMAIN tss |-> MappedPdb(tss[i], 17 * i)],
     pdbs_ts |-> tss,
     parts |-> parts,
     n_pdbs |-> Len(tss),
     n_heuristics |-> Len(parts)]

\* the catalogues loaded
Catalogues ==
    {Catalogue(<<{1, 5}, {2, 6}, {1, 2}>>, <<3, 4>>),
     Catalogue(<<{1, 5}, {2, 6}, {1, 2}>>, <<4, 3, 1>>),
     Catalogue(<<{0, 1}, {5, 6}>>, <<3>>),
     Catalogue(<<{0, 1, 5}, {2}>>, <<1, 2, 3>>),
     Catalogue(<<{1}>>, <<>>)}

\* the buffers catalogue_ph_hval is called with
Buffers == [1 .. MaxPdbs -> {0, 3, 200}]

\* the values read past the end of the index table and of the PDB tables
OutOfBounds == [eqidx : OutOfBoundsReads, byte : OutOfBoundsBytes]

InitCat ==
    /\ build \in Builds
    /\ cat \in Catalogues
    /\ ph \in Buffers
    /\ cat_h = 0
    /\ moved = ZERO_TILE
    /\ heumap = 0
    /\ p = solved_puzzle
    /\ nmoves = 0
    /\ stage = "buffer"
    /\ aux = NULL
    /\ idx = NoIndex
    /\ origin = "puzzle"
    /\ p0 = solved_puzzle
    /\ idx0 = NoIndex
    /\ HeuIdle
    /\ RestIdle

\* the h value of a buffer the caller hands in
CatPhHval ==
    /\ stage = "buffer"
    /\ cat_h' = catalogue_ph_hval(cat, ph)
    /\ stage' = "ph_hval"
    /\ UNCHANGED <<build, p, nmoves, idxvars_but_stage, cat, ph, moved, heumap, heuvars, restvars>>

\* the h value of the puzzle with a throw-away buffer
CatHval(oob) ==
    /\ stage = "ph_hval"
    /\ cat_h' = catalogue_hval(build, cat, p, oob)
    /\ stage' = "hval"
    /\ UNCHANGED <<build, p, nmoves, idxvars_but_stage, cat, ph, moved, heumap, heuvars, restvars>>

CatPartialHvals(oob) ==
    /\ stage \in {"ph_hval", "hval"}
    /\ LET r == catalogue_partial_hvals(build, cat, ph, p, oob)
       IN ph' = r.hvals /\ cat_h' = r.h
    /\ stage' = "partial"
    /\ UNCHANGED <<build, p, nmoves, idxvars_but_stage, cat, moved, heumap, heuvars, restvars>>

\* a legal move of the puzzle the search follows
CatMove(dloc) ==
    /\ stage \in {"partial", "diff"}
    /\ nmoves < MaxCatMoves
    /\ dloc \in get_moves(zero_location(p))
    /\ p' = move(p, dloc)
    /\ moved' = p.grid[dloc]
    /\ nmoves' = nmoves + 1
    /\ stage' = "moved"
    /\ UNCHANGED <<build, idxvars_but_stage, cat, ph, cat_h, heumap, heuvars, restvars>>

CatDiffHvals(oob) ==
    /\ stage = "moved"
    /\ LET r == catalogue_diff_hvals(build, cat, ph, p, moved, oob)
       IN ph' = r.hvals /\ cat_h' = r.h
    /\ stage' = "diff"
    /\ UNCHANGED <<build, p, nmoves, idxvars_but_stage, cat, moved, heumap, heuvars, restvars>>

\* the heuristics that give the h value of a buffer
CatMaxHeuristics ==
    /\ stage \in {"buffer", "partial", "diff"}
    /\ heumap' = catalogue_max_heuristics(cat, ph)
    /\ stage' = "max_heuristics"
    /\ UNCHANGED <<build, p, nmoves, idxvars_but_stage, cat, ph, cat_h, moved, heuvars, restvars>>

NextCat ==
    \/ CatPhHval
    \/ \E oob \in OutOfBounds : CatHval(oob)
    \/ \E oob \in OutOfBounds : CatPartialHvals(oob)
    \/ \E dloc \in Grid : CatMove(dloc)
    \/ \E oob \in OutOfBounds : CatDiffHvals(oob)
    \/ CatMaxHeuristics

SpecCat == InitCat /\ [][NextCat]_vars

(***************************************************************************)
(* Properties of the catalogue.                                            *)
(***************************************************************************)
\* the PDBs whose bit is set in parts
RECURSIVE PartsFrom(_, _)
PartsFrom(parts, j) ==
    IF parts = 0 THEN {}
    ELSE (IF parts % 2 = 1 THEN {j} ELSE {}) \cup PartsFrom(parts \div 2, j + 1)

PartsOf(parts) == PartsFrom(parts, 0)

RECURSIVE SumOver(_, _)
SumOver(js, hvals) ==
    IF js = {} THEN 0
    ELSE LET j == CHOOSE k \in js : TRUE
         IN hvals[j + 1] + SumOver(js \ {j}, hvals)

\* the sums of the h values of the parts of the heuristics of the catalogue
HeuristicSums(c, hvals) ==
    {SumOver(PartsOf(c.parts[i]), hvals) : i \in 1 .. c.n_heuristics}

IsMaxOfSums(h, c, hvals) ==
    /\ h \in HeuristicSums(c, hvals) \cup {0}
    /\ \A s \in HeuristicSums(c, hvals) : s <= h

\* the h values of the PDBs of the catalogue for the puzzle
LookedUp(b, c, hvals, pz, oob) ==
    [i \in DOMAIN hvals |-> IF i <= c.n_pdbs
                            THEN pdb_lookup_puzzle(b, c.pdbs[i], pz, oob)
                            ELSE hvals[i]]

\* C7: catalogue_ph_hval returns the maximum over the heuristics of the sum
\* of the h values of their parts, 0 without heuristics, for any buffer;
\* catalogue_hval returns what catalogue_partial_hvals returns.
C7_MaxOfSums ==
    /\ stage = "ph_hval" => IsMaxOfSums(cat_h, cat, ph)
    /\ stage = "hval" =>
         \E oob \in OutOfBounds :
            /\ cat_h = catalogue_partial_hvals(build, cat, ph, p, oob).h
            /\ IsMaxOfSums(cat_h, cat, LookedUp(build, cat, ph, p, oob))

\* the maximum is the sum of a heuristic that is not the last one
C7_Witness ==
    /\ stage = "ph_hval"
    /\ cat.n_heuristics = 3
    /\ cat_h > 200
    /\ cat_h # catalogue_ph_hval_last(cat, ph)

\* C8: after a legal move, catalogue_diff_hvals leaves the buffer and returns
\* the h value that catalogue_partial_hvals computes from scratch on the new
\* puzzle; pdb_hdiff_wrapper returns what pdb_hval_wrapper returns, whatever
\* old h value is passed.
C8_DiffIsFull ==
    /\ stage = "diff" =>
         \E oob \in OutOfBounds :
            catalogue_partial_hvals(build, cat, ph, p, oob) = [hvals |-> ph, h |-> cat_h]
    /\ stage \in {"partial", "moved", "diff"} =>
         \A i \in 1 .. cat.n_pdbs : \A old_h \in {0, ph[i], UNREACHED} :
            \A oob \in OutOfBounds :
               pdb_hdiff_wrapper(build, cat.pdbs[i], p, old_h, oob)
                   = pdb_hval_wrapper(build, cat.pdbs[i], p, oob)

\* bit i of the bitmap
BitSet(map, i) == (map \div 2 ^ i) % 2 = 1

\* C25: catalogue_max_heuristics returns a bitmap in which bit i, for
\* i < n_heuristics, is set exactly when the sum of heuristic i is the value
\* of catalogue_ph_hval for the same buffer, and no other bit is set; when
\* all sums are 0 the bit of every heuristic is set.
C25_MaxHeuristics ==
    stage = "max_heuristics" =>
        /\ heumap \in 0 .. (2 ^ cat.n_heuristics - 1)
        /\ \A i \in 0 .. (cat.n_heuristics - 1) :
              BitSet(heumap, i) <=>
                  SumOver(PartsOf(cat.parts[i + 1]), ph) = catalogue_ph_hval(cat, ph)
        /\ (\A i \in 1 .. cat.n_heuristics : SumOver(PartsOf(cat.parts[i]), ph) = 0)
              => heumap = 2 ^ cat.n_heuristics - 1

\* the bit of the first heuristic, set for its sum, was cleared for the
\* larger sum of the second one
C25_Witness ==
    /\ stage = "max_heuristics"
    /\ cat.n_heuristics = 3
    /\ heumap = 2
    /\ SumOver(PartsOf(cat.parts[1]), ph) > 0

(***************************************************************************)
(* heuristic.c: the heuristic loader and its drivers.                      *)
(***************************************************************************)
HEU_CREATE == "HEU_CREATE"
HEU_VERBOSE == "HEU_VERBOSE"
HEU_NOMORPH == "HEU_NOMORPH"
HEU_SIMILAR == "HEU_SIMILAR"
HEU_ZEROTILE == "HEU_ZEROTILE"

\* all available drivers, without the NULL sentinel that ends the array
drivers ==
    << [typestr |-> "pdb", drvfun |-> "pdb_driver", flags |-> {}],
       [typestr |-> "ipdb", drvfun |-> "ipdb_driver", flags |-> {}],
       [typestr |-> "zpdb", drvfun |-> "zpdb_driver", flags |-> {HEU_ZEROTILE}],
       [typestr |-> "bpdb", drvfun |-> "bitpdb_driver", flags |-> {}],
       [typestr |-> "zbpdb", drvfun |-> "zbitpdb_driver", flags |-> {HEU_ZEROTILE}],
       [typestr |-> "bpdb.zst", drvfun |-> "bitpdb_zstd_driver", flags |-> {}],
       [typestr |-> "zbpdb.zst", drvfun |-> "zbitpdb_zstd_driver", flags |-> {HEU_ZEROTILE}],
       [typestr |-> "pdb", drvfun |-> "bitpdb_driver", flags |-> {HEU_SIMILAR}],
       [typestr |-> "zpdb", drvfun |-> "zbitpdb_driver", flags |-> {HEU_SIMILAR, HEU_ZEROTILE}],
       [typestr |-> "bpdb.zst", drvfun |-> "bitpdb_driver", flags |-> {HEU_SIMILAR}],
       [typestr |-> "zbpdb.zst", drvfun |-> "zbitpdb_driver", flags |-> {HEU_SIMILAR, HEU_ZEROTILE}],
       [typestr |-> "bpdb", drvfun |-> "pdb_driver", flags |-> {HEU_SIMILAR}],
       [typestr |-> "zbpdb", drvfun |-> "zpdb_driver", flags |-> {HEU_SIMILAR, HEU_ZEROTILE}],
       [typestr |-> "bpdb.zst", drvfun |-> "pdb_driver", flags |-> {HEU_SIMILAR}],
       [typestr |-> "zbpdb.zst", drvfun |-> "zpdb_driver", flags |-> {HEU_SIMILAR, HEU_ZEROTILE}],
       [typestr |-> "pdb", drvfun |-> "bitpdb_zstd_driver", flags |-> {HEU_SIMILAR}],
       [typestr |-> "zpdb", drvfun |-> "zbitpdb_zstd_driver", flags |-> {HEU_SIMILAR, HEU_ZEROTILE}],
       [typestr |-> "bpdb", drvfun |-> "bitpdb_zstd_driver", flags |-> {HEU_SIMILAR}],
       [typestr |-> "zbpdb", drvfun |-> "zbitpdb_zstd_driver", flags |-> {HEU_SIMILAR, HEU_ZEROTILE}] >>

\* the 8 symmetries of the 5 x 5 grid, applied to a grid position; morphism 0
\* is the identity
Morphisms == 0 .. 7

MorphPosition(m, i) ==
    LET r == i \div 5
        c == i % 5
    IN CASE m = 0 -> 5 * r + c
         [] m = 1 -> 5 * c + r
         [] m = 2 -> 5 * r + (4 - c)
         [] m = 3 -> 5 * (4 - r) + c
         [] m = 4 -> 5 * (4 - r) + (4 - c)
         [] m = 5 -> 5 * c + (4 - r)
         [] m = 6 -> 5 * (4 - c) + r
         [] m = 7 -> 5 * (4 - c) + (4 - r)

tileset_morph(ts, m) == {MorphPosition(m, i) : i \in ts}

\* the tile set read as a bit mask
RECURSIVE BitImage(_)
BitImage(ts) ==
    IF ts = {} THEN 0
    ELSE LET t == tileset_get_least(ts) IN 2 ^ t + BitImage(ts \ {t})

\* the least morphism among those with the least image
canonical_automorphism(ts) ==
    CHOOSE m \in Morphisms :
        \A n \in Morphisms :
            \/ BitImage(tileset_morph(ts, m)) < BitImage(tileset_morph(ts, n))
            \/ BitImage(tileset_morph(ts, m)) = BitImage(tileset_morph(ts, n)) /\ m <= n

\* a variant that keeps the zero tile in the tile set
heu_open_locals_unstripped(ts0, flags) ==
    IF HEU_NOMORPH \in flags
    THEN [ts |-> ts0, morphts |-> ts0, zmorphts |-> ts0, morphism |-> 0, zmorphism |-> 0]
    ELSE [ts |-> ts0,
          morphts |-> tileset_morph(ts0, canonical_automorphism(ts0)),
          zmorphts |-> tileset_morph(ts0, canonical_automorphism(tileset_add(ts0, ZERO_TILE))),
          morphism |-> canonical_automorphism(ts0),
          zmorphism |-> canonical_automorphism(tileset_add(ts0, ZERO_TILE))]

\* the local variables ts, morphts, zmorphts, morphism and zmorphism of
\* heu_open when its first loop begins
heu_open_locals(ts0, flags) ==
    LET ts == tileset_remove(ts0, ZERO_TILE) IN
    IF HEU_NOMORPH \in flags
    THEN [ts |-> ts, morphts |-> ts, zmorphts |-> ts, morphism |-> 0, zmorphism |-> 0]
    ELSE [ts |-> ts,
          morphts |-> tileset_morph(ts, canonical_automorphism(ts)),
          zmorphts |-> tileset_morph(ts, canonical_automorphism(tileset_add(ts, ZERO_TILE))),
          morphism |-> canonical_automorphism(ts),
          zmorphism |-> canonical_automorphism(tileset_add(ts, ZERO_TILE))]

\* the files of the directory: <tile set list>.<suffix>, where the list is
\* the one of zmorphts with the zero tile or the one of morphts
Files == [zero : BOOLEAN, suffix : {"pdb", "ipdb", "bpdb", "bpdb.zst"}]

\* what the system calls of one driver call do
Environments == [alloc_ok : BOOLEAN, fopen_ok : BOOLEAN, convert_ok : BOOLEAN,
                 store_ok : BOOLEAN, mmap_ok : BOOLEAN]

\* the system calls matter to the drivers that may create a PDB
EnvironmentsFor(flags) ==
    IF HEU_CREATE \in flags THEN Environments
    ELSE {[alloc_ok |-> TRUE, fopen_ok |-> TRUE, convert_ok |-> TRUE,
           store_ok |-> TRUE, mmap_ok |-> TRUE]}

\* what a driver leaves behind: the value returned, errno, the directory,
\* the provider stored on success, whether a PDB was generated, whether
\* fclose was called with a null stream
Outcome(ret, e, fsv, provider, generated, fclose_null) ==
    [ret |-> ret, errno |-> e, fs |-> fsv, provider |-> provider,
     generated |-> generated, fclose_null |-> fclose_null]

\* common_pdb_driver from the label create_pdb on
common_pdb_create(heudir, file, fsv, e, env) ==
    IF ~env.alloc_ok THEN Outcome(-1, "ENOMEM", fsv, "none", FALSE, FALSE)
    ELSE IF heudir = "NULL" THEN Outcome(0, e, fsv, "memory", TRUE, FALSE)
    ELSE IF ~env.fopen_ok THEN Outcome(0, "EACCES", fsv, "memory", TRUE, FALSE)
    ELSE IF ~env.store_ok
         THEN Outcome(0, "EIO", [fsv EXCEPT ![file] = "malformed"], "memory", TRUE, FALSE)
    ELSE IF ~env.mmap_ok
         THEN Outcome(-1, "ENOMEM", [fsv EXCEPT ![file] = "good"], "none", TRUE, FALSE)
    ELSE Outcome(0, e, [fsv EXCEPT ![file] = "good"], "mapped", TRUE, FALSE)

\* a variant that never reaches the label create_pdb from a file not found
common_pdb_driver_nocreate(heudir, file, flags, fsv, e, env) ==
    IF heudir = "NULL"
    THEN IF HEU_CREATE \in flags THEN common_pdb_create(heudir, file, fsv, e, env)
         ELSE Outcome(-1, "EINVAL", fsv, "none", FALSE, FALSE)
    ELSE IF heudir = "toolong" THEN Outcome(-1, "ENAMETOOLONG", fsv, "none", FALSE, FALSE)
    ELSE IF fsv[file] \in {"absent", "unreadable"}
    THEN Outcome(-1, IF fsv[file] = "absent" THEN "ENOENT" ELSE "EACCES", fsv, "none", FALSE, FALSE)
    ELSE IF fsv[file] = "malformed" THEN Outcome(-1, "EINVAL", fsv, "none", FALSE, FALSE)
    ELSE Outcome(0, e, fsv, "mapped", FALSE, FALSE)

common_pdb_driver(heudir, file, flags, fsv, e, env) ==
    IF heudir = "NULL"
    THEN IF HEU_CREATE \in flags THEN common_pdb_create(heudir, file, fsv, e, env)
         ELSE Outcome(-1, "EINVAL", fsv, "none", FALSE, FALSE)
    ELSE IF heudir = "toolong" THEN Outcome(-1, "ENAMETOOLONG", fsv, "none", FALSE, FALSE)
    ELSE IF fsv[file] \in {"absent", "unreadable"}
    THEN LET e1 == IF fsv[file] = "absent" THEN "ENOENT" ELSE "EACCES"
         IN IF HEU_CREATE \in flags THEN common_pdb_create(heudir, file, fsv, e1, env)
            ELSE Outcome(-1, e1, fsv, "none", FALSE, FALSE)
    ELSE IF fsv[file] = "malformed" THEN Outcome(-1, "EINVAL", fsv, "none", FALSE, FALSE)
    ELSE Outcome(0, e, fsv, "mapped", FALSE, FALSE)

\* a variant that fails when the bitpdb cannot be stored
common_bitpdb_create_storefails(heudir, file, fsv, e, env) ==
    LET opened == heudir # "NULL" /\ env.fopen_ok
        e1 == IF heudir # "NULL" /\ ~env.fopen_ok THEN "EACCES" ELSE e
        fs1 == IF opened THEN [fsv EXCEPT ![file] = "malformed"] ELSE fsv
    IN IF ~env.alloc_ok THEN Outcome(-1, "ENOMEM", fsv, "none", FALSE, FALSE)
       ELSE IF ~env.convert_ok THEN Outcome(-1, "ENOMEM", fs1, "none", TRUE, ~opened)
       ELSE IF ~opened THEN Outcome(0, e1, fs1, "memory", TRUE, FALSE)
       ELSE IF ~env.store_ok THEN Outcome(-1, "EIO", fs1, "none", TRUE, FALSE)
       ELSE Outcome(0, e1, [fsv EXCEPT ![file] = "good"], "memory", TRUE, FALSE)

\* common_bitpdb_driver from the label create_pdb on
common_bitpdb_create(heudir, file, fsv, e, env) ==
    LET opened == heudir # "NULL" /\ env.fopen_ok
        e1 == IF heudir # "NULL" /\ ~env.fopen_ok THEN "EACCES" ELSE e
        fs1 == IF opened THEN [fsv EXCEPT ![file] = "malformed"] ELSE fsv
    IN IF ~env.alloc_ok THEN Outcome(-1, "ENOMEM", fsv, "none", FALSE, FALSE)
       ELSE IF ~env.convert_ok THEN Outcome(-1, "ENOMEM", fs1, "none", TRUE, ~opened)
       ELSE IF ~opened THEN Outcome(0, e1, fs1, "memory", TRUE, FALSE)
       ELSE IF ~env.store_ok THEN Outcome(0, "EIO", fs1, "memory", TRUE, FALSE)
       ELSE Outcome(0, e1, [fsv EXCEPT ![file] = "good"], "memory", TRUE, FALSE)

\* a variant that creates the PDB anew when the file cannot be loaded
common_bitpdb_driver_recreate(heudir, file, flags, fsv, e, env) ==
    IF heudir = "NULL"
    THEN IF HEU_CREATE \in flags THEN common_bitpdb_create(heudir, file, fsv, e, env)
         ELSE Outcome(-1, "EINVAL", fsv, "none", FALSE, FALSE)
    ELSE IF heudir = "toolong" THEN Outcome(-1, "ENAMETOOLONG", fsv, "none", FALSE, FALSE)
    ELSE IF fsv[file] \in {"absent", "unreadable", "malformed"}
    THEN LET e1 == IF fsv[file] = "absent" THEN "ENOENT"
                   ELSE IF fsv[file] = "unreadable" THEN "EACCES" ELSE "EINVAL"
         IN IF HEU_CREATE \in flags THEN common_bitpdb_create(heudir, file, fsv, e1, env)
            ELSE Outcome(-1, e1, fsv, "none", FALSE, FALSE)
    ELSE Outcome(0, e, fsv, "loaded", FALSE, FALSE)

common_bitpdb_driver(heudir, file, flags, fsv, e, env) ==
    IF heudir = "NULL"
    THEN IF HEU_CREATE \in flags THEN common_bitpdb_create(heudir, file, fsv, e, env)
         ELSE Outcome(-1, "EINVAL", fsv, "none", FALSE, FALSE)
    ELSE IF heudir = "toolong" THEN Outcome(-1, "ENAMETOOLONG", fsv, "none", FALSE, FALSE)
    ELSE IF fsv[file] \in {"absent", "unreadable"}
    THEN LET e1 == IF fsv[file] = "absent" THEN "ENOENT" ELSE "EACCES"
         IN IF HEU_CREATE \in flags THEN common_bitpdb_create(heudir, file, fsv, e1, env)
            ELSE Outcome(-1, e1, fsv, "none", FALSE, FALSE)
    ELSE IF fsv[file] = "malformed" THEN Outcome(-1, "EINVAL", fsv, "none", FALSE, FALSE)
    ELSE Outcome(0, e, fsv, "loaded", FALSE, FALSE)

\* the driver functions: the file each of them names and the common code
drvfun(name, heudir, flags, fsv, e, env) ==
    CASE name = "pdb_driver" ->
           common_pdb_driver(heudir, [zero |-> FALSE, suffix |-> "pdb"], flags, fsv, e, env)
      [] name = "ipdb_driver" ->
           common_pdb_driver(heudir, [zero |-> FALSE, suffix |-> "ipdb"], flags, fsv, e, env)
      [] name = "zpdb_driver" ->
           common_pdb_driver(heudir, [zero |-> TRUE, suffix |-> "pdb"], flags, fsv, e, env)
      [] name = "bitpdb_driver" ->
           common_bitpdb_driver(heudir, [zero |-> FALSE, suffix |-> "bpdb"], flags, fsv, e, env)
      [] name = "zbitpdb_driver" ->
           common_bitpdb_driver(heudir, [zero |-> TRUE, suffix |-> "bpdb"], flags, fsv, e, env)
      [] name = "bitpdb_zstd_driver" ->
           common_bitpdb_driver(heudir, [zero |-> FALSE, suffix |-> "bpdb.zst"], flags, fsv, e, env)
      [] name = "zbitpdb_zstd_driver" ->
           common_bitpdb_driver(heudir, [zero |-> TRUE, suffix |-> "bpdb.zst"], flags, fsv, e, env)

\* the type strings heu_open is called with
TypeStrings == {drivers[i].typestr : i \in DOMAIN drivers} \cup {"xpdb"}

\* the directories heu_open is called with: none, one whose path names are
\* too long, one with no file, one with one file
Directories ==
    {[heudir |-> "NULL", fs |-> [f \in Files |-> "absent"]],
     [heudir |-> "toolong", fs |-> [f \in Files |-> "absent"]],
     [heudir |-> "dir", fs |-> [f \in Files |-> "absent"]]}
    \cup {[heudir |-> "dir", fs |-> [f \in Files |-> IF f = g THEN st ELSE "absent"]] :
             g \in Files \ {[zero |-> TRUE, suffix |-> "ipdb"]},
             st \in {"good", "malformed", "unreadable"}}

\* the drivers of one loop of heu_open from entry i on: those with the type
\* string, flagged HEU_SIMILAR or not
Matching(i, typestr, similar) ==
    {j \in DOMAIN drivers : /\ j >= i
                            /\ (HEU_SIMILAR \in drivers[j].flags) = similar
                            /\ drivers[j].typestr = typestr}

First(js) == CHOOSE j \in js : \A k \in js : j <= k

\* a variant that hands the flags of the caller on
LookupFlags_unmasked(flags) == flags

\* the flags the loops that look for a file hand to the drivers
LookupFlags(flags) == flags \ {HEU_CREATE}

\* the tile set and the morphism heu_open records before it calls driver j
HeuFor(h, j, loc) ==
    IF HEU_ZEROTILE \in drivers[j].flags
    THEN [h EXCEPT !.ts = loc.zmorphts, !.morphism = loc.zmorphism]
    ELSE [h EXCEPT !.ts = loc.morphts, !.morphism = loc.morphism]

\* the file a driver function names
drvpath(name) ==
    CASE name = "pdb_driver" -> [zero |-> FALSE, suffix |-> "pdb"]
      [] name = "ipdb_driver" -> [zero |-> FALSE, suffix |-> "ipdb"]
      [] name = "zpdb_driver" -> [zero |-> TRUE, suffix |-> "pdb"]
      [] name = "bitpdb_driver" -> [zero |-> FALSE, suffix |-> "bpdb"]
      [] name = "zbitpdb_driver" -> [zero |-> TRUE, suffix |-> "bpdb"]
      [] name = "bitpdb_zstd_driver" -> [zero |-> FALSE, suffix |-> "bpdb.zst"]
      [] name = "zbitpdb_zstd_driver" -> [zero |-> TRUE, suffix |-> "bpdb.zst"]

\* the record of one call of a driver
DriverCall(j, flags, phase, h, env, fsv, out) ==
    [drv |-> j, flags |-> flags, phase |-> phase, ret |-> out.ret,
     generated |-> out.generated, ts |-> h.ts, env |-> env,
     file |-> drvpath(drivers[j].drvfun), before |-> fsv[drvpath(drivers[j].drvfun)],
     changed |-> out.fs # fsv, provider |-> out.provider]

\* the tile sets heu_open is called with
HeuTilesets == {{0, 4}, {1, 5}, {3, 4, 9}}

InitHeu ==
    /\ hpc = "call"
    /\ hi = 0
    /\ hloc = NULL
    /\ \E d \in Directories :
          /\ hargs \in [typestr : TypeStrings,
                        flags : SUBSET {HEU_CREATE, HEU_VERBOSE, HEU_NOMORPH, HEU_SIMILAR},
                        heudir : {d.heudir},
                        ts : HeuTilesets]
          /\ fs = d.fs
    /\ heu = [ts |-> "unset", morphism |-> "unset", provider |-> "unset", derived |-> "unset"]
    /\ type_match = 0
    /\ errno \in {"0", "EAGAIN"}
    /\ saved_errno = "0"
    /\ hret = 0
    /\ calls = <<>>
    /\ build = "portable"
    /\ p = solved_puzzle
    /\ nmoves = 0
    /\ aux = NULL
    /\ idx = NoIndex
    /\ stage = "heu"
    /\ origin = "puzzle"
    /\ p0 = solved_puzzle
    /\ idx0 = NoIndex
    /\ cat = NULL
    /\ ph = <<>>
    /\ cat_h = 0
    /\ moved = ZERO_TILE
    /\ heumap = 0
    /\ RestIdle

notheu == <<build, p, nmoves, idxvars, catvars, restvars>>

\* heu_open up to its first loop
HeuOpenEnter ==
    /\ hpc = "call"
    /\ saved_errno' = errno
    /\ type_match' = 0
    /\ heu' = [heu EXCEPT !.derived = 0]
    /\ hpc' = "exact"
    /\ hi' = 1
    /\ hloc' = heu_open_locals(hargs.ts, hargs.flags)
    /\ UNCHANGED <<hargs, fs, errno, hret, calls, notheu>>

\* one of the loops that look for a file, up to and including its next call
\* of a driver: the call succeeds, fails, or the loop ends
HeuLookup(phase, similar, after) ==
    LET js == Matching(hi, hargs.typestr, similar)
        j == First(js)
        flags == LookupFlags(hargs.flags)
        h == HeuFor(heu, j, hloc)
    IN /\ hpc = phase
       /\ IF js = {}
          THEN /\ hpc' = after
               /\ hi' = 1
               /\ UNCHANGED <<heu, type_match, errno, fs, calls>>
          ELSE \E env \in EnvironmentsFor(flags) :
               LET out == drvfun(drivers[j].drvfun, hargs.heudir, flags, fs, errno, env) IN
               /\ type_match' = 1
               /\ errno' = out.errno
               /\ fs' = out.fs
               /\ calls' = Append(calls, DriverCall(j, flags, phase, h, env, fs, out))
               /\ heu' = IF out.ret = 0 THEN [h EXCEPT !.provider = out.provider] ELSE h
               /\ hpc' = IF out.ret = 0 THEN "success" ELSE phase
               /\ hi' = j + 1
       /\ UNCHANGED <<hargs, hloc, saved_errno, hret, notheu>>

\* is there an exact match?
HeuExact == HeuLookup("exact", FALSE, "similar")

\* is there a similar match?
HeuSimilar ==
    IF HEU_SIMILAR \in hargs.flags
    THEN HeuLookup("similar", TRUE, "create")
    ELSE /\ hpc = "similar"
         /\ hpc' = "create"
         /\ UNCHANGED <<hi, hargs, hloc, fs, heu, type_match, errno, saved_errno, hret, calls, notheu>>

\* a variant with the two cases exchanged
NotFoundErrno_exchanged(tm) == IF tm # 0 THEN "EINVAL" ELSE "ENOENT"

\* errno on the failure to find a heuristic
NotFoundErrno(tm) == IF tm # 0 THEN "ENOENT" ELSE "EINVAL"

\* what fclose called with a null stream may do: return to the driver, or
\* end the process
FcloseNullOutcomes == {"returns", "crash"}

\* a variant that reports a failed creation like a heuristic not found
CreateFailedErrno_notfound(e, tm) == NotFoundErrno(tm)

\* errno on the failure of the driver to create the heuristic: errno is saved
\* before the message is printed and restored after it
CreateFailedErrno(e, tm) == e

\* can we create a heuristic? and the failure to find one
HeuCreate ==
    LET js == Matching(1, hargs.typestr, FALSE)
        j == First(js)
        h == HeuFor(heu, j, hloc)
    IN /\ hpc = "create"
       /\ IF HEU_CREATE \in hargs.flags /\ js # {}
          THEN \E env \in EnvironmentsFor(hargs.flags), ub \in FcloseNullOutcomes :
               LET out == drvfun(drivers[j].drvfun, hargs.heudir, hargs.flags, fs, errno, env) IN
               /\ ub = "crash" => out.fclose_null
               /\ fs' = out.fs
               /\ calls' = Append(calls, DriverCall(j, hargs.flags, "create", h, env, fs, out))
               /\ heu' = IF out.ret = 0 THEN [h EXCEPT !.provider = out.provider] ELSE h
               /\ IF ub = "crash"
                  THEN /\ hpc' = "crashed"
                       /\ errno' = out.errno
                       /\ UNCHANGED <<saved_errno, hret>>
                  ELSE IF out.ret = 0
                  THEN /\ hpc' = "success"
                       /\ errno' = out.errno
                       /\ UNCHANGED <<saved_errno, hret>>
                  ELSE /\ saved_errno' = out.errno
                       /\ errno' = CreateFailedErrno(out.errno, type_match)
                       /\ hret' = -1
                       /\ hpc' = "done"
          ELSE /\ errno' = NotFoundErrno(type_match)
               /\ hret' = -1
               /\ hpc' = "done"
               /\ UNCHANGED <<fs, calls, heu, saved_errno>>
       /\ UNCHANGED <<hi, hargs, hloc, type_match, notheu>>

\* the label success
HeuSuccess ==
    /\ hpc = "success"
    /\ errno' = saved_errno
    /\ hret' = 0
    /\ hpc' = "done"
    /\ UNCHANGED <<hi, hargs, hloc, fs, heu, type_match, saved_errno, calls, notheu>>

NextHeu ==
    \/ HeuOpenEnter
    \/ HeuExact
    \/ HeuSimilar
    \/ HeuCreate
    \/ HeuSuccess

SpecHeu == InitHeu /\ [][NextHeu]_vars

(***************************************************************************)
(* Properties of the heuristic loader.                                     *)
(***************************************************************************)
PhaseNumber(phase) ==
    CASE phase = "exact" -> 1 [] phase = "similar" -> 2 [] phase = "create" -> 3

\* every driver of the set js was called in the phase before call c and failed
AllFailedBefore(js, phase, c) ==
    \A j \in js : \E a \in 1 .. (c - 1) :
        calls[a].drv = j /\ calls[a].phase = phase /\ calls[a].ret = -1

\* C9: heu_open calls the drivers in three phases in the order exact match,
\* similar representation, creation; a driver flagged HEU_SIMILAR is called
\* only with HEU_SIMILAR passed and after every exact driver failed; creation
\* only with HEU_CREATE passed and after every earlier driver failed; the
\* first two phases pass the flags without HEU_CREATE and generate no PDB.
C9_PhaseOrder ==
    /\ \A a, b \in DOMAIN calls :
          a < b => PhaseNumber(calls[a].phase) <= PhaseNumber(calls[b].phase)
    /\ \A c \in DOMAIN calls :
          /\ drivers[calls[c].drv].typestr = hargs.typestr
          /\ calls[c].phase = "exact" => HEU_SIMILAR \notin drivers[calls[c].drv].flags
          /\ HEU_SIMILAR \in drivers[calls[c].drv].flags =>
                /\ calls[c].phase = "similar"
                /\ HEU_SIMILAR \in hargs.flags
                /\ AllFailedBefore(Matching(1, hargs.typestr, FALSE), "exact", c)
          /\ calls[c].phase = "create" =>
                /\ HEU_CREATE \in hargs.flags
                /\ \A a \in 1 .. (c - 1) : calls[a].ret = -1
                /\ AllFailedBefore(Matching(1, hargs.typestr, FALSE), "exact", c)
                /\ HEU_SIMILAR \in hargs.flags =>
                      AllFailedBefore(Matching(1, hargs.typestr, TRUE), "similar", c)
          /\ calls[c].phase \in {"exact", "similar"} =>
                /\ HEU_CREATE \notin calls[c].flags
                /\ ~calls[c].generated

\* heu_open went through the three phases and created the heuristic
C9_Witness ==
    /\ hpc = "done"
    /\ hret = 0
    /\ \E a, b, c \in DOMAIN calls :
          /\ calls[a].phase = "exact"
          /\ calls[b].phase = "similar"
          /\ calls[c].phase = "create" /\ calls[c].generated

\* C10: when no driver succeeds and HEU_CREATE is not set, heu_open returns
\* -1 with errno ENOENT if a driver carries the type string and EINVAL if
\* none does, with and without HEU_SIMILAR.
C10_NotFoundOrUnknown ==
    (hpc = "done" /\ HEU_CREATE \notin hargs.flags /\ \A c \in DOMAIN calls : calls[c].ret = -1) =>
        /\ hret = -1
        /\ errno = IF \E j \in DOMAIN drivers : drivers[j].typestr = hargs.typestr
                   THEN "ENOENT" ELSE "EINVAL"

\* a known type was not found without HEU_SIMILAR, the last driver had left
\* another errno
C10_Witness ==
    /\ hpc = "done"
    /\ hret = -1
    /\ HEU_CREATE \notin hargs.flags
    /\ HEU_SIMILAR \notin hargs.flags
    /\ hargs.heudir = "toolong"
    /\ calls # <<>>
    /\ errno = "ENOENT"

\* the types of the full PDBs, those of the drivers on common_pdb_driver
FullPdbTypes == {"pdb", "ipdb", "zpdb"}

\* no allocation, write, conversion or mapping fails in call c
FaultFree(c) ==
    /\ calls[c].env.alloc_ok /\ calls[c].env.fopen_ok /\ calls[c].env.convert_ok
    /\ calls[c].env.store_ok /\ calls[c].env.mmap_ok

\* heu_open has returned from opening a full PDB whose file did not exist in
\* a writable directory
MissingFullPdb ==
    /\ hpc = "done"
    /\ hargs.typestr \in FullPdbTypes
    /\ hargs.heudir = "dir"
    /\ calls # <<>>
    /\ calls[1].file = drvpath(drivers[First(Matching(1, hargs.typestr, FALSE))].drvfun)
    /\ calls[1].before = "absent"
    /\ \A c \in DOMAIN calls : FaultFree(c)

\* without HEU_CREATE not found and no file created, with HEU_CREATE the PDB
\* generated, written to the file of the type and mapped from it
CreatedOrNotFound ==
    IF HEU_CREATE \in hargs.flags
    THEN /\ hret = 0
         /\ calls[Len(calls)].phase = "create"
         /\ calls[Len(calls)].generated
         /\ calls[Len(calls)].file = calls[1].file
         /\ calls[Len(calls)].ts = heu.ts
         /\ fs[calls[1].file] = "good"
         /\ heu.provider = "mapped"
    ELSE /\ hret = -1
         /\ errno = "ENOENT"
         /\ \A c \in DOMAIN calls : ~calls[c].changed /\ ~calls[c].generated

\* C11 as stated: opening a full PDB whose file does not exist in a writable
\* directory fails with ENOENT and creates no file without HEU_CREATE, and
\* with HEU_CREATE returns 0 with the PDB generated, written to the file and
\* the heuristic backed by that file.
C11_MissingPdb_AsStated == MissingFullPdb => CreatedOrNotFound

\* C11: the same, when no driver of a similar representation opens its file
\* (HEU_SIMILAR is not set, or every such driver fails).
C11_MissingPdb ==
    (MissingFullPdb /\ \A c \in DOMAIN calls : calls[c].phase = "similar" => calls[c].ret = -1)
        => CreatedOrNotFound

\* a PDB was created after the exact and the similar drivers failed
C11_Witness ==
    /\ MissingFullPdb
    /\ hargs.typestr = "pdb"
    /\ {HEU_CREATE, HEU_SIMILAR} \subseteq hargs.flags
    /\ Len(calls) = 4
    /\ hret = 0
    /\ fs[[zero |-> FALSE, suffix |-> "pdb"]] = "good"

UsesConversion(c) ==
    drivers[calls[c].drv].drvfun \in
        {"bitpdb_driver", "zbitpdb_driver", "bitpdb_zstd_driver", "zbitpdb_zstd_driver"}

\* call c went to the label create_pdb with a directory, allocated the PDB
\* and could not open the file for writing or could not store the PDB
PersistFailed(c) ==
    /\ HEU_CREATE \in calls[c].flags
    /\ hargs.heudir = "dir"
    /\ calls[c].before \in {"absent", "unreadable"}
    /\ calls[c].env.alloc_ok
    /\ UsesConversion(c) => calls[c].env.convert_ok
    /\ ~calls[c].env.fopen_ok \/ ~calls[c].env.store_ok

\* C13: in the creation path of the PDB drivers a failure to persist (the
\* file cannot be opened for writing, or the store call fails) does not make
\* the driver fail: the PDB is generated and the driver returns 0 with the
\* PDB in memory as provider.
C13_PersistFailureKeepsPdb ==
    \A c \in DOMAIN calls :
        PersistFailed(c) =>
            /\ calls[c].ret = 0
            /\ calls[c].generated
            /\ calls[c].provider = "memory"

\* heu_open returned a bitpdb kept in memory that could not be stored
C13_Witness ==
    /\ hpc = "done"
    /\ hret = 0
    /\ heu.provider = "memory"
    /\ \E c \in DOMAIN calls :
          /\ PersistFailed(c)
          /\ UsesConversion(c)
          /\ calls[c].env.fopen_ok
          /\ ~calls[c].env.store_ok

\* heu_open has returned from opening a known type whose file exists in the
\* directory and cannot be mapped or loaded
MalformedFile ==
    /\ hpc = "done"
    /\ hargs.heudir = "dir"
    /\ calls # <<>>
    /\ calls[1].before = "malformed"

\* every driver of a similar representation was called, unless one before
\* it succeeded
SimilarTried ==
    HEU_SIMILAR \in hargs.flags =>
        \A j \in Matching(1, hargs.typestr, TRUE) :
            \/ \E c \in DOMAIN calls : calls[c].drv = j /\ calls[c].phase = "similar"
            \/ \E c \in DOMAIN calls : calls[c].ret = 0 /\ calls[c].drv < j

\* C14 as stated: a file that cannot be mapped makes the driver return
\* failure, and heu_open goes on as for a missing file: to the similar
\* drivers with HEU_SIMILAR and to the creation of the PDB with HEU_CREATE.
C14_MalformedAsMissing_AsStated ==
    MalformedFile =>
        /\ calls[1].ret = -1
        /\ SimilarTried
        /\ (HEU_CREATE \in hargs.flags /\ FaultFree(Len(calls))
              /\ \A c \in DOMAIN calls : calls[c].phase # "create" => calls[c].ret = -1) =>
                 /\ calls[Len(calls)].phase = "create"
                 /\ calls[Len(calls)].generated
                 /\ hret = 0

\* C14: a file that cannot be mapped makes the driver return failure, and
\* heu_open goes on to the similar drivers with HEU_SIMILAR; with HEU_CREATE,
\* after all of them failed, it calls the first exact driver again, which
\* fails on the same file without generating a PDB, and heu_open returns -1
\* with the errno of that driver and the file as it was; without HEU_CREATE
\* it returns -1 with ENOENT.
C14_MalformedNotRecreated ==
    (MalformedFile /\ \A c \in DOMAIN calls : calls[c].phase # "create" => calls[c].ret = -1) =>
        /\ calls[1].ret = -1
        /\ SimilarTried
        /\ hret = -1
        /\ fs[calls[1].file] = "malformed"
        /\ \A c \in DOMAIN calls : ~calls[c].generated /\ ~calls[c].changed
        /\ IF HEU_CREATE \in hargs.flags
           THEN /\ calls[Len(calls)].phase = "create"
                /\ calls[Len(calls)].drv = calls[1].drv
                /\ calls[Len(calls)].ret = -1
                /\ errno = "EINVAL"
           ELSE errno = "ENOENT"

\* the drivers of the three phases have failed on or after a malformed file
C14_Witness ==
    /\ MalformedFile
    /\ {HEU_CREATE, HEU_SIMILAR} \subseteq hargs.flags
    /\ hret = -1
    /\ calls[Len(calls)].phase = "create"
    /\ \E c \in DOMAIN calls : calls[c].phase = "similar"

\* the calls of the creation phase
CreateCalls == {c \in DOMAIN calls : calls[c].phase = "create"}

\* what driver j does, called with flags, on a file in the state before
DriverAgain(j, flags, before, env) ==
    drvfun(drivers[j].drvfun, hargs.heudir, flags, [f \in Files |-> before], "0", env)

\* C24: when heu_open reaches its creation phase (HEU_CREATE set, no driver
\* has succeeded before) and an entry of the drivers table that is not
\* flagged HEU_SIMILAR carries the type string, exactly one driver is called
\* in this phase, the first such entry, with the flags of the caller; when it
\* succeeds heu_open returns 0, when it fails heu_open returns -1 with the
\* errno that driver has left, and no other entry is tried after it.
C24_CreateOnce ==
    (/\ hpc = "done"
     /\ HEU_CREATE \in hargs.flags
     /\ Matching(1, hargs.typestr, FALSE) # {}
     /\ \A c \in DOMAIN calls : calls[c].phase # "create" => calls[c].ret = -1) =>
        /\ Cardinality(CreateCalls) = 1
        /\ calls[Len(calls)].phase = "create"
        /\ LET c == calls[Len(calls)]
               again == DriverAgain(c.drv, c.flags, c.before, c.env)
           IN /\ c.drv = First(Matching(1, hargs.typestr, FALSE))
              /\ HEU_SIMILAR \notin drivers[c.drv].flags
              /\ c.flags = hargs.flags
              /\ c.ret = again.ret
              /\ c.ret = 0 => hret = 0
              /\ c.ret = -1 => hret = -1 /\ errno = again.errno

\* the creation has failed after an exact and a similar driver have found no
\* file, and errno is not the one of a heuristic that was not found
C24_Witness ==
    /\ hpc = "done"
    /\ hret = -1
    /\ Len(calls) >= 3
    /\ calls[1].phase = "exact"
    /\ calls[2].phase = "similar"
    /\ calls[Len(calls)].phase = "create"
    /\ calls[Len(calls)].ret = -1
    /\ errno = "ENOMEM"

\* C30: in the creation path of common_bitpdb_driver fclose is never called
\* with a null stream (heudir NULL, output file not openable, bitpdb_from_pdb
\* or the store failing), and the process is not ended by such a call.
C30_FcloseOpened ==
    /\ hpc # "crashed"
    /\ \A c \in DOMAIN calls :
          ~DriverAgain(calls[c].drv, calls[c].flags, calls[c].before, calls[c].env).fclose_null

(***************************************************************************)
(* fsm.c: the finite state machines that prune the search.                 *)
(***************************************************************************)
\* the number of moves fed to a finite state machine
MaxFsmMoves == 5

\* the distinguished states; the two last ones are the unsigned numbers
\* 0xfffffffe and 0xffffffff, written as 32 bit two's complement numbers
FSM_BEGIN == 0
FSM_MATCH == -2
FSM_UNASSIGNED == -1

\* a variant with a match on the third move
dummy_states_match == << <<FSM_BEGIN, FSM_BEGIN, FSM_MATCH, FSM_BEGIN>> >>

dummy_states == << <<FSM_BEGIN, FSM_BEGIN, FSM_BEGIN, FSM_BEGIN>> >>

fsm_dummy == [sizes |-> [z \in Grid |-> 1], tables |-> [z \in Grid |-> dummy_states]]

simple_states_LU ==
    << <<2, 1, FSM_UNASSIGNED, FSM_UNASSIGNED>>,
       <<FSM_UNASSIGNED, FSM_UNASSIGNED, FSM_UNASSIGNED, FSM_UNASSIGNED>>,
       <<FSM_UNASSIGNED, FSM_UNASSIGNED, FSM_UNASSIGNED, FSM_UNASSIGNED>>,
       <<FSM_MATCH, 1, FSM_UNASSIGNED, FSM_UNASSIGNED>>,
       <<2, FSM_MATCH, FSM_UNASSIGNED, FSM_UNASSIGNED>> >>

simple_states_U ==
    << <<3, 2, 1, FSM_UNASSIGNED>>,
       <<FSM_UNASSIGNED, FSM_UNASSIGNED, FSM_UNASSIGNED, FSM_UNASSIGNED>>,
       <<FSM_MATCH, 2, 1, FSM_UNASSIGNED>>,
       <<3, FSM_MATCH, 1, FSM_UNASSIGNED>>,
       <<3, 2, FSM_MATCH, FSM_UNASSIGNED>> >>

simple_states_RU ==
    << <<3, 1, FSM_UNASSIGNED, FSM_UNASSIGNED>>,
       <<FSM_UNASSIGNED, FSM_UNASSIGNED, FSM_UNASSIGNED, FSM_UNASSIGNED>>,
       <<FSM_MATCH, 1, FSM_UNASSIGNED, FSM_UNASSIGNED>>,
       <<FSM_UNASSIGNED, FSM_UNASSIGNED, FSM_UNASSIGNED, FSM_UNASSIGNED>>,
       <<3, FSM_MATCH, FSM_UNASSIGNED, FSM_UNASSIGNED>> >>

simple_states_L ==
    << <<4, 2, 1, FSM_UNASSIGNED>>,
       <<FSM_MATCH, 2, 1, FSM_UNASSIGNED>>,
       <<FSM_UNASSIGNED, FSM_UNASSIGNED, FSM_UNASSIGNED, FSM_UNASSIGNED>>,
       <<4, FSM_MATCH, 1, FSM_UNASSIGNED>>,
       <<4, 2, FSM_MATCH, FSM_UNASSIGNED>> >>

\* a variant that reuses the table of the other left corner
simple_states_LD_corner == simple_states_LU

simple_states_LD == simple_states_L

\* a variant that takes the move to the left after a move to the right for
\* no reversal
simple_states_C_noleft ==
    << <<4, 3, 2, 1>>,
       <<FSM_MATCH, 3, 2, 1>>,
       <<4, 3, 2, 1>>,
       <<4, 3, FSM_MATCH, 1>>,
       <<4, 3, 2, FSM_MATCH>> >>

simple_states_C ==
    << <<4, 3, 2, 1>>,
       <<FSM_MATCH, 3, 2, 1>>,
       <<4, FSM_MATCH, 2, 1>>,
       <<4, 3, FSM_MATCH, 1>>,
       <<4, 3, 2, FSM_MATCH>> >>

simple_states_D == simple_states_C
simple_states_RD == simple_states_C

simple_states_R ==
    << <<4, 3, 1, FSM_UNASSIGNED>>,
       <<FSM_MATCH, 3, 1, FSM_UNASSIGNED>>,
       <<4, FSM_MATCH, 1, FSM_UNASSIGNED>>,
       <<FSM_UNASSIGNED, FSM_UNASSIGNED, FSM_UNASSIGNED, FSM_UNASSIGNED>>,
       <<4, 3, FSM_MATCH, FSM_UNASSIGNED>> >>

fsm_simple ==
    [sizes |-> [z \in Grid |-> 5],
     tables |->
        [z \in Grid |->
            << simple_states_LU, simple_states_U, simple_states_U, simple_states_U, simple_states_RU,
               simple_states_L, simple_states_C, simple_states_C, simple_states_C, simple_states_R,
               simple_states_L, simple_states_C, simple_states_C, simple_states_C, simple_states_R,
               simple_states_L, simple_states_C, simple_states_C, simple_states_C, simple_states_R,
               simple_states_LD, simple_states_D, simple_states_D, simple_states_D, simple_states_RD
            >>[z + 1]]]

\* the index of the move to newzloc among the moves from zloc, which are in
\* ascending order of the destination
move_index(zloc, newzloc) == Cardinality({g \in get_moves(zloc) : g < newzloc})

fsm_start_state(zloc) == [zloc |-> zloc, state |-> FSM_BEGIN]

\* the state after the move of the zero tile to newzloc
fsm_advance(f, st, newzloc) ==
    [zloc |-> newzloc,
     state |-> f.tables[st.zloc][st.state + 1][move_index(st.zloc, newzloc) + 1]]

\* the puzzle after the moves of the zero tile along zs
RECURSIVE ApplyMoves(_, _)
ApplyMoves(pz, zs) ==
    IF zs = <<>> THEN pz ELSE ApplyMoves(move(pz, Head(zs)), Tail(zs))

InitFsm ==
    /\ fsm \in {fsm_dummy, fsm_simple}
    /\ \E z \in Grid :
          /\ fst = fsm_start_state(z)
          /\ zlocs = <<z>>
          /\ p = move(solved_puzzle, z)
    /\ build = "portable"
    /\ nmoves = 0
    /\ aux = NULL
    /\ idx = NoIndex
    /\ stage = "fsm"
    /\ origin = "puzzle"
    /\ p0 = solved_puzzle
    /\ idx0 = NoIndex
    /\ cat = NULL
    /\ ph = <<>>
    /\ cat_h = 0
    /\ moved = ZERO_TILE
    /\ heumap = 0
    /\ HeuIdle
    /\ LoadIdle
    /\ UpdIdle
    /\ GenIdle
    /\ MoreIdle

\* one legal move of the puzzle, with the finite state machine advanced; the
\* search makes no move from FSM_MATCH
FsmAdvance(dloc) ==
    /\ stage = "fsm"
    /\ Len(zlocs) <= MaxFsmMoves
    /\ fst.state \notin {FSM_MATCH, FSM_UNASSIGNED}
    /\ dloc \in get_moves(fst.zloc)
    /\ fst' = fsm_advance(fsm, fst, dloc)
    /\ zlocs' = Append(zlocs, dloc)
    /\ p' = move(p, dloc)
    /\ UNCHANGED <<fsm, build, nmoves, idxvars, catvars, heuvars, flvars, updvars, genvars, morevars>>

NextFsm == \E dloc \in Grid : FsmAdvance(dloc)

SpecFsm == InitFsm /\ [][NextFsm]_vars

\* the values of errno when fsm_load is called
EntryErrnos == {"0", "EAGAIN"}

\* how a call of malloc, fseeko or fread in fsm_load fails
LoadFailures ==
    {"malloc_fsm", "short_header", "ioerror_header",
     "malloc_table", "fseeko", "short_table", "ioerror_table"}

\* errno as the failing library function leaves it
LibraryErrno(failure, e) ==
    CASE failure \in {"malloc_fsm", "malloc_table"} -> "ENOMEM"
      [] failure = "fseeko" -> "ESPIPE"
      [] failure \in {"ioerror_header", "ioerror_table"} -> "EIO"
      [] failure \in {"short_header", "short_table"} -> e

\* the stream's error indicator after the failure
ferror(failure) == failure \in {"ioerror_header", "ioerror_table"}

\* errno at the label fail after a table could not be read
load_table_errno(failure, e) ==
    IF failure \in {"short_table", "ioerror_table"} /\ ~ferror(failure)
    THEN "EINVAL" ELSE LibraryErrno(failure, e)

\* errno when fsm_load returns after the header could not be read: error is
\* errno after fread, and it is stored back after EINVAL has been stored
load_header_errno(failure, e) ==
    LET error == LibraryErrno(failure, e)
        errno1 == IF ~ferror(failure) THEN "EINVAL" ELSE error
        errno2 == error
    IN errno2

InitLoad ==
    /\ lpc = "call"
    /\ li = 0
    /\ heap = {}
    /\ lret = NULL
    /\ lfail = "none"
    /\ errno \in EntryErrnos
    /\ HeuIdleButErrno
    /\ FsmIdle
    /\ UpdIdle
    /\ GenIdle
    /\ MoreIdle
    /\ build = "portable"
    /\ p = solved_puzzle
    /\ nmoves = 0
    /\ aux = NULL
    /\ idx = NoIndex
    /\ stage = "fsm_load"
    /\ origin = "puzzle"
    /\ p0 = solved_puzzle
    /\ idx0 = NoIndex
    /\ cat = NULL
    /\ ph = <<>>
    /\ cat_h = 0
    /\ moved = ZERO_TILE
    /\ heumap = 0

notload == <<build, p, nmoves, idxvars, catvars, fsmvars, updvars, genvars,
             hpc, hi, hargs, hloc, fs, heu, type_match, saved_errno, hret, calls, morevars>>

\* fsm_load up to the read of the header
LoadHeader ==
    /\ lpc = "call"
    /\ \E failure \in {"none", "malloc_fsm", "short_header", "ioerror_header"} :
          /\ lfail' = failure
          /\ IF failure = "malloc_fsm"
             THEN /\ errno' = LibraryErrno(failure, errno)
                  /\ lpc' = "done"
                  /\ UNCHANGED heap
             ELSE IF failure # "none"
             THEN /\ errno' = load_header_errno(failure, errno)
                  /\ lpc' = "done"
                  /\ heap' = (heap \cup {<<"fsm", 0>>}) \ {<<"fsm", 0>>}
             ELSE /\ lpc' = "tables"
                  /\ heap' = heap \cup {<<"fsm", 0>>}
                  /\ UNCHANGED errno
    /\ UNCHANGED <<li, lret, notload>>

\* one iteration of the loop that loads the state tables, the label fail
\* included
LoadTable ==
    /\ lpc = "tables"
    /\ li < TILE_COUNT
    /\ \E failure \in {"none", "malloc_table", "fseeko", "short_table", "ioerror_table"} :
          /\ lfail' = failure
          /\ IF failure = "none"
             THEN /\ heap' = heap \cup {<<"table", li>>}
                  /\ li' = li + 1
                  /\ UNCHANGED <<errno, lpc>>
             ELSE /\ errno' = load_table_errno(failure, errno)
                  /\ heap' = {}
                  /\ lpc' = "done"
                  /\ UNCHANGED li
    /\ UNCHANGED <<lret, notload>>

\* the state machine is returned
LoadReturn ==
    /\ lpc = "tables"
    /\ li = TILE_COUNT
    /\ lret' = "fsm"
    /\ lpc' = "done"
    /\ UNCHANGED <<li, heap, lfail, errno, notload>>

NextLoad == LoadHeader \/ LoadTable \/ LoadReturn

SpecLoad == InitLoad /\ [][NextLoad]_vars

\* errno that indicates the problem
IndicatedErrno(failure) ==
    CASE failure \in {"malloc_fsm", "malloc_table"} -> "ENOMEM"
      [] failure = "fseeko" -> "ESPIPE"
      [] failure \in {"ioerror_header", "ioerror_table"} -> "EIO"
      [] failure \in {"short_header", "short_table"} -> "EINVAL"

\* C17: on every failure fsm_load returns NULL with errno set to indicate
\* the problem and with everything it allocated released; when the file is
\* too short for the header or for a state table and the stream reports no
\* error, errno is EINVAL.
C17_LoadFailure ==
    (lpc = "done" /\ lfail # "none") =>
        /\ lret = NULL
        /\ heap = {}
        /\ errno = IndicatedErrno(lfail)

\* C15: every transition of fsm_dummy, for every zero position and every move
\* index, leads to FSM_BEGIN, so that no sequence of legal moves drives
\* fsm_dummy to FSM_MATCH or to FSM_UNASSIGNED.
C15_DummyAcceptsAll ==
    fsm = fsm_dummy =>
        /\ \A z \in Grid : \A i \in 1 .. 4 : fsm.tables[z][FSM_BEGIN + 1][i] = FSM_BEGIN
        /\ fst.state = FSM_BEGIN
        /\ fst.zloc = zlocs[Len(zlocs)]

\* fsm_dummy has accepted a sequence with an immediate reversal
C15_Witness ==
    /\ fsm = fsm_dummy
    /\ Len(zlocs) = MaxFsmMoves + 1
    /\ zlocs[3] = zlocs[1]
    /\ fst.state = FSM_BEGIN

\* the last move returned the zero tile to the position it had before the
\* move before
Reversal == Len(zlocs) >= 3 /\ zlocs[Len(zlocs)] = zlocs[Len(zlocs) - 2]

\* the sequence without its last two moves
WithoutLastTwo(zs) == SubSeq(zs, 1, Len(zs) - 2)

\* C16: fsm_simple, started in FSM_BEGIN at any zero position and fed legal
\* moves, is in FSM_MATCH after a move if and only if the move is an immediate
\* reversal, and is never in FSM_UNASSIGNED; the sequence without the last
\* two moves of a rejected sequence is shorter and leaves the same board.
C16_SimpleRejectsReversals ==
    fsm = fsm_simple =>
        /\ fst.state = FSM_MATCH <=> Reversal
        /\ fst.state # FSM_UNASSIGNED
        /\ fst.zloc = zlocs[Len(zlocs)]
        /\ fst.state = FSM_MATCH =>
              /\ p = ApplyMoves(move(solved_puzzle, zlocs[1]), Tail(zlocs))
              /\ p = ApplyMoves(move(solved_puzzle, zlocs[1]), Tail(WithoutLastTwo(zlocs)))

\* fsm_simple has rejected a reversal after accepting moves
C16_Witness ==
    /\ fsm = fsm_simple
    /\ Len(zlocs) = MaxFsmMoves + 1
    /\ fst.state = FSM_MATCH
    /\ Reversal

\* the positions whose tables are shared: the corners of the bottom row and
\* the bottom row between them
SharedTablePositions == 20 .. 24

\* C29: fsm_simple, run from FSM_BEGIN at any zero position along legal moves
\* that are not rejected, is always in a valid row (< sizes[zero position]) of
\* the table of the current zero position, and no legal move from there takes
\* a transition FSM_UNASSIGNED, at the positions with shared tables too.
C29_SimpleStatesValid ==
    fsm = fsm_simple /\ fst.state # FSM_MATCH =>
        /\ fst.state \in 0 .. (fsm.sizes[fst.zloc] - 1)
        /\ fst.state + 1 \in DOMAIN fsm.tables[fst.zloc]
        /\ \A dloc \in get_moves(fst.zloc) :
              LET next == fsm_advance(fsm, fst, dloc).state
              IN /\ next # FSM_UNASSIGNED
                 /\ next = FSM_MATCH \/ next \in 0 .. (fsm.sizes[dloc] - 1)

\* fsm_simple has come to a position with a shared table by a move and has
\* made moves from there
C29_Witness ==
    /\ fsm = fsm_simple
    /\ Len(zlocs) = MaxFsmMoves + 1
    /\ \E j \in 2 .. (Len(zlocs) - 1) : zlocs[j] \in SharedTablePositions
    /\ fst.zloc \in SharedTablePositions
    /\ fst.state \in 1 .. 4

(***************************************************************************)
(* pdb.h: the conditional updates of the workers of one round.  The        *)
(* entries are atomic bytes read and written with memory_order_relaxed:    *)
(* each entry has a modification order, and a load yields any value of it  *)
(* that is not older than what the worker has seen of the entry.           *)
(***************************************************************************)
\* the number of workers, of entries and of updates of one worker
MaxWorkers == 2
MaxEntries == 2
MaxUpdates == 2

\* the sequences of at most n entries to update
RECURSIVE UpdateLists(_)
UpdateLists(n) ==
    IF n = 0 THEN {<<>>}
    ELSE UpdateLists(n - 1) \cup
         {Append(l, e) : l \in {k \in UpdateLists(n - 1) : Len(k) = n - 1}, e \in 1 .. MaxEntries}

\* a variant that stores whatever the entry holds, as pdb_update does
stores_after_load_always(loaded) == TRUE

\* the condition under which pdb_conditional_update stores
stores_after_load(loaded) == loaded = UNREACHED

InitUpd ==
    /\ entries \in [1 .. MaxEntries -> {<<UNREACHED>>, <<0>>}]
    /\ desired = 1
    /\ \E todo \in [1 .. MaxWorkers -> UpdateLists(MaxUpdates)] :
          workers = [w \in 1 .. MaxWorkers |->
                        [pc |-> "load", todo |-> todo[w], targets |-> todo[w],
                         seen |-> [e \in 1 .. MaxEntries |-> 1]]]
    /\ HeuIdle
    /\ FsmIdle
    /\ LoadIdle
    /\ GenIdle
    /\ MoreIdle
    /\ build = "portable"
    /\ p = solved_puzzle
    /\ nmoves = 0
    /\ aux = NULL
    /\ idx = NoIndex
    /\ stage = "update"
    /\ origin = "puzzle"
    /\ p0 = solved_puzzle
    /\ idx0 = NoIndex
    /\ cat = NULL
    /\ ph = <<>>
    /\ cat_h = 0
    /\ moved = ZERO_TILE
    /\ heumap = 0

notupd == <<build, p, nmoves, idxvars, catvars, heuvars, fsmvars, flvars, genvars, morevars>>

\* the atomic load of pdb_conditional_update by worker w
UpdLoad(w) ==
    /\ workers # <<>>
    /\ workers[w].pc = "load"
    /\ workers[w].todo # <<>>
    /\ LET e == Head(workers[w].todo) IN
       \E k \in workers[w].seen[e] .. Len(entries[e]) :
          workers' = [workers EXCEPT
                         ![w].seen[e] = k,
                         ![w].pc = IF stores_after_load(entries[e][k]) THEN "store" ELSE "load",
                         ![w].todo = IF stores_after_load(entries[e][k]) THEN @ ELSE Tail(@)]
    /\ UNCHANGED <<entries, desired, notupd>>

\* the atomic store of pdb_conditional_update by worker w
UpdStore(w) ==
    /\ workers # <<>>
    /\ workers[w].pc = "store"
    /\ LET e == Head(workers[w].todo) IN
          /\ entries' = [entries EXCEPT ![e] = Append(@, desired)]
          /\ workers' = [workers EXCEPT ![w].seen[e] = Len(entries[e]) + 1,
                                        ![w].pc = "load",
                                        ![w].todo = Tail(@)]
    /\ UNCHANGED <<desired, notupd>>

NextUpd == \E w \in 1 .. MaxWorkers : UpdLoad(w) \/ UpdStore(w)

SpecUpd == InitUpd /\ [][NextUpd]_vars

\* the value of an entry once the workers are joined
Last(h) == h[Len(h)]

\* the entries the workers update in the round
Targeted == UNION {{workers[w].targets[j] : j \in DOMAIN workers[w].targets} : w \in DOMAIN workers}

RoundOver == \A w \in DOMAIN workers : workers[w].todo = <<>>

\* C18: when several workers execute pdb_conditional_update concurrently, as
\* a relaxed load followed by a relaxed store, with the value of the round as
\* desired, then under every interleaving the entries at the end of the round
\* are those of a sequential execution: an entry that was UNREACHED and is
\* updated holds the value of the round, every other entry is unchanged.
C18_RoundDeterministic ==
    /\ \A e \in DOMAIN entries :
          /\ entries[e][1] # UNREACHED => entries[e] = <<entries[e][1]>>
          /\ \A k \in 2 .. Len(entries[e]) : entries[e][k] = desired
    /\ RoundOver =>
          \A e \in DOMAIN entries :
              Last(entries[e]) = IF entries[e][1] = UNREACHED /\ e \in Targeted
                                 THEN desired ELSE entries[e][1]

\* both workers have stored to the same entry, one entry held a distance
C18_Witness ==
    /\ RoundOver
    /\ \E e \in DOMAIN entries : Len(entries[e]) = 3
    /\ \E e \in DOMAIN entries : e \in Targeted /\ entries[e] = <<0>>

(***************************************************************************)
(* The generation of a pattern database by breadth first search.           *)
(***************************************************************************)
\* the tile sets pattern databases are generated for
GenTilesets == {{1}, {0, 1}}

\* what an update of an entry outside of the tables may do: write to memory
\* that is no entry of the pattern database, or end the process
OutOfBoundsUpdates == {"elsewhere", "crash"}

\* a pattern database in memory with every entry UNREACHED
pdb_allocate(ts) ==
    LET a == make_index_aux(ts) IN
    [aux |-> a,
     tables |-> [m \in 0 .. (a.n_maprank - 1) |->
                    [o \in 0 .. (pdb_table_size([aux |-> a], m) - 1) |-> UNREACHED]]]

\* the entry is one of the tables
InTables(pdbv, entry) ==
    /\ entry.table \in 0 .. (pdbv.aux.n_maprank - 1)
    /\ entry.offset \in 0 .. (pdb_table_size(pdbv, entry.table) - 1)

\* the entries of the tables from table m on, in the order of the tables
RECURSIVE EntrySeq(_, _)
EntrySeq(pdbv, m) ==
    IF m = pdbv.aux.n_maprank THEN <<>>
    ELSE [o \in 1 .. pdb_table_size(pdbv, m) |-> [table |-> m, offset |-> o - 1]]
         \o EntrySeq(pdbv, m + 1)

\* the index pdb_entry_pointer maps to the entry
index_of_entry(pdbv, entry) ==
    [pidx |-> entry.offset % pdbv.aux.n_perm,
     maprank |-> entry.table,
     eqidx |-> IF tileset_has(pdbv.aux.ts, ZERO_TILE)
               THEN entry.offset \div pdbv.aux.n_perm ELSE -1]

\* the positions of the zero tile in the configurations of an index: those of
\* its equivalence class, or all free positions when the pattern database
\* does not account for the zero tile
ZeroPositions(a, i) ==
    IF tileset_has(a.ts, ZERO_TILE) THEN eqclass_from_index(a, i)
    ELSE tileset_complement(tileset_unrank(a.n_tile, i.maprank))

\* the configurations one legal move away from those of index i
Neighbours(a, i) ==
    LET pz == invert_index(a, i) IN
    UNION {{move(move(pz, z), d) : d \in get_moves(z)} : z \in ZeroPositions(a, i)}

\* the entries the expansion of an entry updates
Successors(b, pdbv, entry, oob) ==
    {pdb_entry_pointer(pdbv, compute_index(b, pdbv.aux, q, oob)) :
        q \in Neighbours(pdbv.aux, index_of_entry(pdbv, entry))}

\* pdb_update on every entry of the set
pdb_update_all(pdbv, es, dist) ==
    [pdbv EXCEPT !.tables =
        [m \in DOMAIN pdbv.tables |->
            [o \in DOMAIN pdbv.tables[m] |->
                IF [table |-> m, offset |-> o] \in es THEN dist ELSE pdbv.tables[m][o]]]]

\* a variant that updates every entry
pdb_conditional_update_always(pdbv, es, dist) == pdb_update_all(pdbv, es, dist)

\* pdb_conditional_update on every entry of the set
pdb_conditional_update(pdbv, es, dist) ==
    pdb_update_all(pdbv, {e \in es : pdbv.tables[e.table][e.offset] = UNREACHED}, dist)

InitGen ==
    /\ build \in Builds
    /\ gpdb \in {pdb_allocate(ts) : ts \in GenTilesets}
    /\ gpc = "start"
    /\ round = 0
    /\ gi = 0
    /\ gcount = 0
    /\ HeuIdle
    /\ FsmIdle
    /\ LoadIdle
    /\ UpdIdle
    /\ MoreIdle
    /\ p = solved_puzzle
    /\ nmoves = 0
    /\ aux = NULL
    /\ idx = NoIndex
    /\ stage = "generate"
    /\ origin = "puzzle"
    /\ p0 = solved_puzzle
    /\ idx0 = NoIndex
    /\ cat = NULL
    /\ ph = <<>>
    /\ cat_h = 0
    /\ moved = ZERO_TILE
    /\ heumap = 0

notgen == <<build, p, nmoves, idxvars, catvars, heuvars, fsmvars, flvars, updvars, morevars>>

\* round 0: the entry of the solved configuration is set to 0
GenRound0 ==
    /\ gpc = "start"
    /\ \E oob \in OutOfBoundsReads :
       LET entry == pdb_entry_pointer(gpdb, compute_index(build, gpdb.aux, solved_puzzle, oob)) IN
       IF InTables(gpdb, entry)
       THEN /\ gpdb' = pdb_update_all(gpdb, {entry}, 0)
            /\ gpc' = "scan"
            /\ gi' = 1
       ELSE \E outcome \in OutOfBoundsUpdates :
            /\ gpc' = IF outcome = "crash" THEN "crashed" ELSE "scan"
            /\ gi' = 1
            /\ UNCHANGED gpdb
    /\ UNCHANGED <<round, gcount, notgen>>

\* round r: the next entry of the tables; when it holds r, the entries of
\* its successors that are UNREACHED are set to r + 1
GenCell ==
    /\ gpc = "scan"
    /\ gi <= Len(EntrySeq(gpdb, 0))
    /\ LET entry == EntrySeq(gpdb, 0)[gi] IN
       IF gpdb.tables[entry.table][entry.offset] # round
       THEN /\ gi' = gi + 1
            /\ UNCHANGED <<gpdb, gpc, gcount>>
       ELSE \E oob \in OutOfBoundsReads :
            \E succ \in {Successors(build, gpdb, entry, oob)} :
            \E inside \in {{e \in succ : InTables(gpdb, e)}} :
            LET new == {e \in inside : gpdb.tables[e.table][e.offset] = UNREACHED}
            IN /\ gpdb' = pdb_conditional_update(gpdb, inside, round + 1)
               /\ gcount' = gcount + Cardinality(new)
               /\ gi' = gi + 1
               /\ IF inside = succ THEN UNCHANGED gpc
                  ELSE \E outcome \in OutOfBoundsUpdates :
                       gpc' = IF outcome = "crash" THEN "crashed" ELSE "scan"
    /\ UNCHANGED <<round, notgen>>

\* the end of a round: the generation stops when the round has set no entry
GenRoundEnd ==
    /\ gpc = "scan"
    /\ gi > Len(EntrySeq(gpdb, 0))
    /\ IF gcount = 0
       THEN /\ gpc' = "done"
            /\ UNCHANGED <<round, gi, gcount>>
       ELSE /\ round' = round + 1
            /\ gi' = 1
            /\ gcount' = 0
            /\ UNCHANGED gpc
    /\ UNCHANGED <<gpdb, notgen>>

NextGen == GenRound0 \/ GenCell \/ GenRoundEnd

SpecGen == InitGen /\ [][NextGen]_vars

\* the values of the entries of the pattern database
EntryValues == {gpdb.tables[m][o] : m \in DOMAIN gpdb.tables, o \in {0}} \cup
               UNION {{gpdb.tables[m][o] : o \in DOMAIN gpdb.tables[m]} : m \in DOMAIN gpdb.tables}

\* C19: pdb_generate, started on a pattern database with every entry
\* UNREACHED, stops after the first round that sets no new entry (every
\* round before it has set one), and then no entry is UNREACHED.
C19_GenerationComplete ==
    gpc = "done" =>
        /\ gcount = 0
        /\ \A v \in 0 .. round : v \in EntryValues
        /\ \A v \in EntryValues : v = UNREACHED \/ v <= round
        /\ UNREACHED \notin EntryValues

\* the entry of a configuration: the rank of the positions of its nonzero
\* tiles, the index of their permutation, the class of its zero tile
entry_of(pdbv, pz) ==
    LET a == pdbv.aux
        tsnz == tileset_remove(a.ts, ZERO_TILE)
        map == NonzeroPositions(a.ts, pz)
    IN pdb_entry_pointer(pdbv,
           [pidx |-> index_permutation(tsnz, map, pz),
            maprank |-> tileset_rank(map),
            eqidx |-> IF tileset_has(a.ts, ZERO_TILE)
                      THEN idxt_entry(a, tileset_rank(map)).eqclasses[zero_location(pz)]
                      ELSE -1])

\* C20: in a pattern database produced by pdb_generate the entry of the
\* solved configuration is 0, and every entry with a value d > 0 has an entry
\* with the value d - 1 one legal move away, from some position of the zero
\* tile in its equivalence class.
C20_PredecessorExists ==
    gpc = "done" =>
        /\ LET e == entry_of(gpdb, solved_puzzle) IN gpdb.tables[e.table][e.offset] = 0
        /\ \A m \in DOMAIN gpdb.tables : \A o \in DOMAIN gpdb.tables[m] :
              gpdb.tables[m][o] \notin {0, UNREACHED} =>
                  \E q \in Neighbours(gpdb.aux, index_of_entry(gpdb, [table |-> m, offset |-> o])) :
                      LET e == entry_of(gpdb, q)
                      IN gpdb.tables[e.table][e.offset] = gpdb.tables[m][o] - 1

MaxSearchMoves == 3

\* the bound of a search whose last iteration has cut no branch
Infinity == 1000

\* the number of tile moves that bring tile t from grid position g home
TileDistance(t, g) ==
    LET dr == (g \div 5) - (t \div 5)
        dc == (g % 5) - (t % 5)
    IN (IF dr < 0 THEN -dr ELSE dr) + (IF dc < 0 THEN -dc ELSE dc)

\* the entry a generated pattern database for the single tile of ts holds
\* for the puzzle
generated_pdb_lookup(ts, pz) ==
    LET t == tileset_get_least(ts) IN TileDistance(t, pz.tiles[t])

\* the partial h values of the puzzle looked up from scratch
search_partial_hvals(c, pz) ==
    [i \in 1 .. MaxPdbs |-> IF i <= c.n_pdbs
                            THEN generated_pdb_lookup(c.pdbs_ts[i], pz) ELSE 0]

\* the partial h values after the move of tile: the pattern databases with
\* tile in their tile set are looked up again
search_diff_hvals(c, hvals, pz, tile) ==
    [i \in 1 .. MaxPdbs |-> IF i <= c.n_pdbs /\ tileset_has(c.pdbs_ts[i], tile)
                            THEN generated_pdb_lookup(c.pdbs_ts[i], pz)
                            ELSE hvals[i]]

\* a variant that does not look at the puzzle
ida_found_by_h(pz, h) == h = 0

\* the test of the search for the goal
ida_found(pz, h) == h = 0 /\ pz = solved_puzzle

\* the moves from a node the search follows: those the pruner admits, without
\* the inverse of the last move
admitted_moves(f, st, from) ==
    {d \in get_moves(st.zloc) :
        d # from /\ fsm_advance(f, st, d).state # FSM_MATCH}

\* the frame of the depth first search for a node reached by g moves
search_frame(f, g, from, hvals, st) ==
    [g |-> g, from |-> from, hvals |-> hvals, fst |-> st,
     todo |-> admitted_moves(f, st, from), minf |-> Infinity]

\* the frame of the root
root_frame(f, c, pz) ==
    search_frame(f, 0, NULL, search_partial_hvals(c, pz),
                 fsm_start_state(zero_location(pz)))

\* the puzzles at most k legal moves from the solved puzzle
RECURSIVE ReachableWithin(_)
ReachableWithin(k) ==
    IF k = 0 THEN {solved_puzzle}
    ELSE LET near == ReachableWithin(k - 1)
         IN near \cup UNION {{move(q, d) : d \in get_moves(zero_location(q))} :
                                 q \in near}

\* the catalogues of the searches: pattern databases of one tile each, with
\* the heuristics their sum, the maximum of two groups, and none
SearchCatalogues ==
    {Catalogue(<<{1}, {5}, {6}>>, <<7>>),
     Catalogue(<<{1}, {5}, {2}>>, <<1, 6>>),
     Catalogue(<<{1}>>, <<>>)}

InitSearch ==
    /\ build = "portable"
    /\ fsm \in {fsm_dummy, fsm_simple}
    /\ cat \in SearchCatalogues
    /\ sroot \in ReachableWithin(MaxSearchMoves)
    /\ p = sroot
    /\ stack = <<root_frame(fsm, cat, sroot)>>
    /\ bound = catalogue_ph_hval(cat, search_partial_hvals(cat, sroot))
    /\ spc = "enter"
    /\ sret = 0
    /\ fst = NULL
    /\ zlocs = <<>>
    /\ nmoves = 0
    /\ aux = NULL
    /\ idx = NoIndex
    /\ stage = "search"
    /\ origin = "puzzle"
    /\ p0 = solved_puzzle
    /\ idx0 = NoIndex
    /\ ph = <<>>
    /\ cat_h = 0
    /\ moved = ZERO_TILE
    /\ heumap = 0
    /\ HeuIdle
    /\ LoadIdle
    /\ UpdIdle
    /\ GenIdle
    /\ BitIdle
    /\ GenfsmIdle
    /\ TableIdle

notsrch == <<build, nmoves, idxvars, catvars, heuvars, fsmvars, flvars, updvars, genvars, bitvars, gfvars,
             tabvars>>

Top == stack[Len(stack)]

\* dfs at the entry of a node: f = g + h is compared with the bound, and the
\* goal is recognised
SearchEnter ==
    /\ spc = "enter"
    /\ LET h == catalogue_ph_hval(cat, Top.hvals)
           f == Top.g + h
       IN IF f > bound
          THEN /\ sret' = f
               /\ spc' = "return"
          ELSE IF ida_found(p, h)
          THEN /\ spc' = "done"
               /\ UNCHANGED sret
          ELSE /\ spc' = "expand"
               /\ UNCHANGED sret
    /\ UNCHANGED <<p, sroot, bound, stack, notsrch>>

\* the next admitted move of the node is applied and the partial h values
\* are updated for the moved tile; the moves are taken in ascending order of
\* their destination
SearchDescend ==
    /\ spc = "expand"
    /\ Top.todo # {}
    /\ LET d == tileset_get_least(Top.todo)
           tile == p.grid[d]
           q == move(p, d)
           child == search_frame(fsm, Top.g + 1, zero_location(p),
                                 search_diff_hvals(cat, Top.hvals, q, tile),
                                 fsm_advance(fsm, Top.fst, d))
       IN /\ p' = q
          /\ stack' = Append([stack EXCEPT ![Len(stack)].todo = Top.todo \ {d}], child)
    /\ spc' = "enter"
    /\ UNCHANGED <<sroot, bound, sret, notsrch>>

\* every admitted move of the node was followed: dfs returns the least f of
\* the branches that were cut
SearchExhausted ==
    /\ spc = "expand"
    /\ Top.todo = {}
    /\ sret' = Top.minf
    /\ spc' = "return"
    /\ UNCHANGED <<p, sroot, bound, stack, notsrch>>

\* the return of dfs to the node above: the move is undone
SearchReturn ==
    /\ spc = "return"
    /\ Len(stack) > 1
    /\ LET parent == stack[Len(stack) - 1]
           least == IF sret < parent.minf THEN sret ELSE parent.minf
       IN stack' = [SubSeq(stack, 1, Len(stack) - 1) EXCEPT ![Len(stack) - 1].minf = least]
    /\ p' = move(p, Top.from)
    /\ spc' = "expand"
    /\ UNCHANGED <<sroot, bound, sret, notsrch>>

\* the return of dfs to the loop of the search: the next iteration has the
\* returned bound
SearchNextBound ==
    /\ spc = "return"
    /\ Len(stack) = 1
    /\ IF sret = Infinity
       THEN /\ spc' = "unsolvable"
            /\ UNCHANGED <<bound, stack>>
       ELSE /\ bound' = sret
            /\ stack' = <<root_frame(fsm, cat, sroot)>>
            /\ spc' = "enter"
    /\ UNCHANGED <<p, sroot, sret, notsrch>>

NextSearch ==
    \/ SearchEnter
    \/ SearchDescend
    \/ SearchExhausted
    \/ SearchReturn
    \/ SearchNextBound

SpecSearch == InitSearch /\ [][NextSearch]_vars

\* pz is at most k legal moves from the solved puzzle
RECURSIVE DistanceAtMost(_, _)
DistanceAtMost(pz, k) ==
    \/ pz = solved_puzzle
    \/ k > 0 /\ \E d \in get_moves(zero_location(pz)) : DistanceAtMost(move(pz, d), k - 1)

\* the length of a shortest sequence of legal moves from pz to the goal
TrueDistance(pz) ==
    CHOOSE k \in 0 .. MaxSearchMoves :
        DistanceAtMost(pz, k) /\ (k = 0 \/ ~DistanceAtMost(pz, k - 1))

\* the path the search returns: the positions the zero tile moves to
ReturnedPath == [i \in 1 .. (Len(stack) - 1) |-> stack[i + 1].fst.zloc]

\* C22: on any solvable puzzle and with an admissible catalogue heuristic,
\* the search returns a path of legal moves from the root to the goal whose
\* length is the true shortest distance; on the solved puzzle its length is 0.
C22_SearchOptimal ==
    /\ spc # "unsolvable"
    /\ spc = "done" =>
          /\ \A i \in 1 .. Len(ReturnedPath) :
                ReturnedPath[i] \in get_moves(IF i = 1 THEN zero_location(sroot)
                                                       ELSE ReturnedPath[i - 1])
          /\ ApplyMoves(sroot, ReturnedPath) = solved_puzzle
          /\ Len(ReturnedPath) = TrueDistance(sroot)
          /\ sroot = solved_puzzle => Len(ReturnedPath) = 0

\* a search that needed a second iteration has returned a path of three moves
C22_Witness ==
    /\ spc = "done"
    /\ Len(ReturnedPath) = 3
    /\ bound > catalogue_ph_hval(cat, search_partial_hvals(cat, sroot))
    /\ cat.n_heuristics > 0

(***************************************************************************)
(* The differential lookup of a bit-packed pattern database.               *)
(***************************************************************************)
\* an entry of a bit-packed pattern database holds the distance modulo this
BITPDB_MODULUS == 16

\* the greatest difference of the old h value the contract is stated for
MaxOldDifference == 15

\* the h values of the entries: UNREACHED is no distance
Distances == 0 .. (UNREACHED - 1)

\* the entry bitpdb_from_pdb stores for the distance h
bitpdb_entry(h) == h % BITPDB_MODULUS

\* a variant that returns the value with the entry that is next below old_h
bitpdb_diff_lookup_below(entry, old_h) ==
    old_h - ((old_h - entry) % BITPDB_MODULUS)

\* the value with the entry that is nearest to old_h
bitpdb_diff_lookup(entry, old_h) ==
    LET below == old_h - ((old_h - entry) % BITPDB_MODULUS)
    IN IF old_h - below < BITPDB_MODULUS \div 2 THEN below
       ELSE below + BITPDB_MODULUS

bitpdb_hdiff_wrapper(entry, old_h) == bitpdb_diff_lookup(entry, old_h)

InitBit ==
    /\ btrue \in Distances
    /\ bold \in {o \in Distances : o - btrue \in (0 - MaxOldDifference) .. MaxOldDifference}
    /\ bpc = "call"
    /\ bret = 0
    /\ build = "portable"
    /\ p = solved_puzzle
    /\ nmoves = 0
    /\ aux = NULL
    /\ idx = NoIndex
    /\ stage = "bitpdb"
    /\ origin = "puzzle"
    /\ p0 = solved_puzzle
    /\ idx0 = NoIndex
    /\ cat = NULL
    /\ ph = <<>>
    /\ cat_h = 0
    /\ moved = ZERO_TILE
    /\ heumap = 0
    /\ HeuIdle
    /\ FsmIdle
    /\ LoadIdle
    /\ UpdIdle
    /\ GenIdle
    /\ SearchIdle
    /\ GenfsmIdle
    /\ TableIdle

\* the h value of a puzzle whose entry holds the distance btrue, given the
\* h value bold of the puzzle before the move
BitHdiff ==
    /\ bpc = "call"
    /\ bret' = bitpdb_hdiff_wrapper(bitpdb_entry(btrue), bold)
    /\ bpc' = "returned"
    /\ UNCHANGED <<btrue, bold, build, p, nmoves, idxvars, catvars, heuvars,
                   fsmvars, flvars, updvars, genvars, srchvars, gfvars, tabvars>>

NextBit == BitHdiff

SpecBit == InitBit /\ [][NextBit]_vars

TableTilesets == {{0}, {1, 5}, {0, 1}, {0, 7}, {0, 1, 5}, {0, 2, 6}}

\* the sizes of the tile sets without the zero tile
TableSizes == {tileset_count(tileset_remove(ts, ZERO_TILE)) : ts \in TableTilesets}

\* one iteration of the loop of make_index_table on its locals
index_table_step(st) ==
    LET eqc == tileset_populate_eqclasses(st.map)
    IN [idxt |-> Append(st.idxt, [offset |-> st.offset,
                                  n_eqclass |-> eqc.n_eqclass,
                                  eqclasses |-> eqc.eqclasses]),
        offset |-> st.offset + eqc.n_eqclass,
        map |-> IF st.map = {} THEN {} ELSE next_combination(st.map)]

\* the locals of make_index_table when its loop is entered
index_table_start(tscount) ==
    [idxt |-> <<>>, offset |-> 0, map |-> tileset_least(tscount)]

InitTable ==
    /\ tpc = "idle"
    /\ tts = {}
    /\ tloop = NoTableLoop
    /\ index_tables = [k \in TableSizes |-> <<>>]
    /\ tret = NULL
    /\ build = "portable"
    /\ p = solved_puzzle
    /\ nmoves = 0
    /\ aux = NULL
    /\ idx = NoIndex
    /\ stage = "table"
    /\ origin = "puzzle"
    /\ p0 = solved_puzzle
    /\ idx0 = NoIndex
    /\ cat = NULL
    /\ ph = <<>>
    /\ cat_h = 0
    /\ moved = ZERO_TILE
    /\ heumap = 0
    /\ HeuIdle
    /\ FsmIdle
    /\ LoadIdle
    /\ UpdIdle
    /\ GenIdle
    /\ SearchIdle
    /\ BitIdle
    /\ GenfsmIdle

nottab == <<build, p, nmoves, idxvars, catvars, heuvars, fsmvars, flvars, updvars,
            genvars, srchvars, bitvars, gfvars>>

\* make_index_table(ts) up to its loop: NULL without the zero tile, the cached
\* table when there is one
MakeIndexTable(ts) ==
    /\ tpc \in {"idle", "returned"}
    /\ tts' = ts
    /\ LET tscount == tileset_count(tileset_remove(ts, ZERO_TILE))
       IN IF ~tileset_has(ts, ZERO_TILE)
          THEN tret' = NULL /\ tpc' = "returned" /\ tloop' = NoTableLoop
          ELSE IF index_tables[tscount] # <<>>
          THEN tret' = tscount /\ tpc' = "returned" /\ tloop' = NoTableLoop
          ELSE /\ tloop' = index_table_start(tscount)
               /\ tpc' = "loop"
               /\ tret' = NULL
    /\ UNCHANGED <<index_tables, nottab>>

\* one iteration of the loop
MakeIndexTableEntry ==
    /\ tpc = "loop"
    /\ Len(tloop.idxt) < combination_count[tileset_count(tileset_remove(tts, ZERO_TILE))]
    /\ tloop' = index_table_step(tloop)
    /\ UNCHANGED <<tpc, tts, index_tables, tret, nottab>>

\* after the loop the table is stored in index_tables and returned
MakeIndexTableStore ==
    /\ tpc = "loop"
    /\ LET tscount == tileset_count(tileset_remove(tts, ZERO_TILE))
       IN /\ Len(tloop.idxt) = combination_count[tscount]
          /\ index_tables' = [index_tables EXCEPT ![tscount] = tloop.idxt]
          /\ tret' = tscount
    /\ tpc' = "returned"
    /\ tloop' = NoTableLoop
    /\ UNCHANGED <<tts, nottab>>

NextTable ==
    \/ \E ts \in TableTilesets : MakeIndexTable(ts)
    \/ MakeIndexTableEntry
    \/ MakeIndexTableStore

SpecTable == InitTable /\ [][NextTable]_vars

\* the sum of n_eqclass over the entries first .. last of idxt
RECURSIVE SumEqclassOver(_, _, _)
SumEqclassOver(idxt, first, last) ==
    IF first > last THEN 0
    ELSE IF first = last THEN idxt[first].n_eqclass
    ELSE LET mid == (first + last) \div 2
         IN SumEqclassOver(idxt, first, mid) + SumEqclassOver(idxt, mid + 1, last)

SumEqclass(idxt, r) == SumEqclassOver(idxt, 1, r)

\* C28: the table make_index_table returns for a tile set with the zero tile
\* has at entry r the equivalence classes of the position set of rank r (the
\* enumeration by next_combination visits the sets in rank order), the offset
\* of entry r is the sum of n_eqclass over the entries below r, and the table
\* is given by the number of nonzero tiles of the tile set of the call alone,
\* whether it was built by this call or taken from index_tables.
C28_IndexTable ==
    /\ /\ tpc = "loop"
       /\ Len(tloop.idxt) < combination_count[tileset_count(tileset_remove(tts, ZERO_TILE))]
       => /\ tloop.map \subseteq Grid
          /\ tileset_rank(tloop.map) = Len(tloop.idxt)
    /\ tpc = "loop" /\ tloop.idxt # <<>> =>
          LET r == Len(tloop.idxt)
          IN tloop.idxt[r].offset = SumEqclass(tloop.idxt, r - 1)
    /\ tpc = "returned" /\ tileset_has(tts, ZERO_TILE) =>
          LET tscount == tileset_count(tileset_remove(tts, ZERO_TILE))
              idxt == index_tables[tret]
          IN /\ tret = tscount
             /\ Len(idxt) = combination_count[tscount]
             /\ \A r \in 0 .. (Len(idxt) - 1) :
                   LET map == tileset_unrank(tscount, r)
                       eqc == tileset_populate_eqclasses(map)
                   IN /\ tileset_rank(map) = r
                      /\ idxt[r + 1].n_eqclass = eqc.n_eqclass
                      /\ idxt[r + 1].eqclasses = eqc.eqclasses
                      /\ idxt[r + 1].offset = SumEqclass(idxt, r)

\* the table of two nonzero tiles is returned for the tile set {0, 2, 6},
\* with the table of one nonzero tile in index_tables as well
C28_Witness ==
    /\ tpc = "returned"
    /\ tts = {0, 2, 6}
    /\ tret = 2
    /\ Len(index_tables[2]) = 300
    /\ index_tables[2][2].offset = index_tables[2][1].n_eqclass
    /\ index_tables[1] # <<>>

\* C27: compute_index is constant on abstract states: a legal move that
\* slides a tile that is not in ts into the blank changes none of the three
\* components of the index, with the zero tile in ts and without it.
C27_IndexConstantOnAbstract ==
    stage = "puzzle" =>
        \A dloc \in get_moves(zero_location(p)), oob \in OutOfBoundsReads :
            ~tileset_has(aux.ts, p.grid[dloc]) =>
                compute_index(build, aux, move(p, dloc), oob)
                    = compute_index(build, aux, p, oob)

(***************************************************************************)
(* genfsm.c: the rounds of the generation of a finite state machine.       *)
(***************************************************************************)
PDB_HISTOGRAM_LEN == 256

\* the arguments of the option -l; "none" when the option is not given
LimitArguments == {-1, 0, 1, 2, 3, PDB_HISTOGRAM_LEN - 1, PDB_HISTOGRAM_LEN,
                   PDB_HISTOGRAM_LEN + 44}

\* the slices of cps that do_loops(fsmfile, cps, len) reads: rounds[len - 1],
\* and in find_path rounds[len - i] for i from 2 to len - 1
do_loops_slices(len) == {len - 1} \cup {len - k : k \in 2 .. (len - 1)}

\* what do_loops(fsmfile, cps, len) does: the round it is applied to, the
\* slices it reads, and the highest round expanded when it is called
do_loops(len, high) ==
    [round |-> len - 1, slices |-> do_loops_slices(len), expanded |-> high]

InitGenfsm ==
    /\ mpc = "options"
    /\ limit = PDB_HISTOGRAM_LEN
    /\ mi = 0
    /\ expanded = 0
    /\ doloops = NoLoops
    /\ build = "portable"
    /\ p = solved_puzzle
    /\ nmoves = 0
    /\ aux = NULL
    /\ idx = NoIndex
    /\ stage = "genfsm"
    /\ origin = "puzzle"
    /\ p0 = solved_puzzle
    /\ idx0 = NoIndex
    /\ cat = NULL
    /\ ph = <<>>
    /\ cat_h = 0
    /\ moved = ZERO_TILE
    /\ heumap = 0
    /\ HeuIdle
    /\ FsmIdle
    /\ LoadIdle
    /\ UpdIdle
    /\ GenIdle
    /\ SearchIdle
    /\ BitIdle
    /\ TableIdle

notgf == <<build, p, nmoves, idxvars, catvars, heuvars, fsmvars, flvars, updvars,
           genvars, srchvars, bitvars, tabvars>>

\* main up to its loop: the options, and round 0 with the start configuration
GenfsmOptions ==
    /\ mpc = "options"
    /\ \/ /\ mpc' = "loop"
          /\ mi' = 1
          /\ UNCHANGED limit
       \/ \E arg \in LimitArguments :
             IF arg > PDB_HISTOGRAM_LEN
             THEN limit' = PDB_HISTOGRAM_LEN /\ mpc' = "loop" /\ mi' = 1
             ELSE IF arg < 0
             THEN mpc' = "usage" /\ UNCHANGED <<limit, mi>>
             ELSE limit' = arg /\ mpc' = "loop" /\ mi' = 1
    /\ UNCHANGED <<expanded, doloops, notgf>>

\* one iteration of the loop of main: round mi is expanded from round mi - 1
\* into the slice cps[mi], then do_loops is called with len = mi; a slice
\* outside of the array is undefined
GenfsmRound ==
    /\ mpc = "loop"
    /\ mi <= limit
    /\ IF mi < PDB_HISTOGRAM_LEN
       THEN /\ expanded' = mi
            /\ doloops' = do_loops(mi, mi)
            /\ mi' = mi + 1
            /\ UNCHANGED mpc
       ELSE \E outcome \in OutOfBoundsUpdates :
            IF outcome = "crash"
            THEN mpc' = "crashed" /\ UNCHANGED <<expanded, doloops, mi>>
            ELSE /\ expanded' = mi
                 /\ doloops' = do_loops(mi, mi)
                 /\ mi' = mi + 1
                 /\ UNCHANGED mpc
    /\ UNCHANGED <<limit, notgf>>

\* the call of do_loops after the loop
GenfsmLast ==
    /\ mpc = "loop"
    /\ mi > limit
    /\ doloops' = do_loops(mi, expanded)
    /\ IF mi <= PDB_HISTOGRAM_LEN
       THEN mpc' = "exit"
       ELSE \E outcome \in OutOfBoundsUpdates :
            mpc' = IF outcome = "crash" THEN "crashed" ELSE "exit"
    /\ UNCHANGED <<limit, mi, expanded, notgf>>

NextGenfsm == GenfsmOptions \/ GenfsmRound \/ GenfsmLast

SpecGenfsm == InitGenfsm /\ [][NextGenfsm]_vars

\* C26: every call of do_loops by main, the one after the loop included, is
\* applied to a round r when round r + 1 has been expanded, and every slice
\* it reads is one of the PDB_HISTOGRAM_LEN slices of cps, for every limit
\* main accepts.
C26_LoopsAfterExpansion ==
    /\ mpc # "crashed"
    /\ doloops # NoLoops =>
          /\ doloops.expanded >= doloops.round + 1
          /\ \A sl \in doloops.slices : sl \in 0 .. (PDB_HISTOGRAM_LEN - 1)

====
